---- MODULE Spec2Model ----
(***************************************************************************)
(* Model of the mcap2arrow schema/value pipeline:                          *)
(*   - the Arrow row appender (mcap2arrow-arrow/src/arrow_convert),        *)
(*   - the decoder registry and the batching loop of McapReader            *)
(*     (mcap2arrow/src/reader.rs).                                         *)
(*                                                                         *)
(* Values, data types, builders and arrays are records of one uniform      *)
(* shape each, so that trees of any depth can be compared.  Scalar         *)
(* payloads (numbers, strings, bytes) are natural numbers.                 *)
(***************************************************************************)
EXTENDS Integers, Sequences, FiniteSets, TLC

\* ------------------------------------------------------------------------
\* Bounds of the model
\* ------------------------------------------------------------------------
MaxRows == 2
MaxMsgs == 3
MaxBatch == 3
MaxRegs == 2

\* i64::MAX, scaled down: times above it do not fit a timestamp column.
I64Max == 40

\* ------------------------------------------------------------------------
\* Value (mcap2arrow-core/src/value.rs)
\* ------------------------------------------------------------------------
VNull == [k |-> "Null", v |-> 0, c |-> <<>>]
VI32(n) == [k |-> "I32", v |-> n, c |-> <<>>]
VI64(n) == [k |-> "I64", v |-> n, c |-> <<>>]
VU8(n) == [k |-> "U8", v |-> n, c |-> <<>>]
VString(n) == [k |-> "String", v |-> n, c |-> <<>>]
VStruct(children) == [k |-> "Struct", v |-> 0, c |-> children]
VList(items) == [k |-> "List", v |-> 0, c |-> items]
VArray(items) == [k |-> "Array", v |-> 0, c |-> items]
\* entries is a sequence of <<key, value>> pairs
VMap(entries) == [k |-> "Map", v |-> 0, c |-> entries]

variant_name(value) == value.k

\* ValueTypeError{expected, actual}; is = FALSE stands for Ok
NoErr == [is |-> FALSE, expected |-> "", actual |-> ""]
ValueTypeError(expected, actual) == [is |-> TRUE, expected |-> expected, actual |-> actual]

type_mismatch(value, expected) == ValueTypeError(expected, variant_name(value))

try_scalarBug(value, variant) ==
    IF value.k = variant THEN [err |-> NoErr, some |-> TRUE, v |-> value.v]
    ELSE [err |-> NoErr, some |-> FALSE, v |-> 0]

\* Value::try_i8 .. Value::try_bytes: the payload of the wanted variant,
\* None for Null, a type mismatch for every other variant.
try_scalar(value, variant) ==
    IF value.k = variant THEN [err |-> NoErr, some |-> TRUE, v |-> value.v]
    ELSE IF value.k = "Null" THEN [err |-> NoErr, some |-> FALSE, v |-> 0]
    ELSE [err |-> type_mismatch(value, variant), some |-> FALSE, v |-> 0]

\* ------------------------------------------------------------------------
\* Arrow data types and fields
\* ------------------------------------------------------------------------
Field(name, dt, nullable) == [name |-> name, dt |-> dt, nullable |-> nullable]
DScalar(t) == [t |-> t, size |-> 0, fields |-> <<>>]
DList(item) == [t |-> "List", size |-> 0, fields |-> <<item>>]
DFixedSizeList(item, size) == [t |-> "FixedSizeList", size |-> size, fields |-> <<item>>]
DStruct(fields) == [t |-> "Struct", size |-> 0, fields |-> fields]
\* fields of the entry struct: <<key field, value field>>
DMap(key, value) == [t |-> "Map", size |-> 0, fields |-> <<key, value>>]

ScalarTypes == {"Null", "Boolean", "Int8", "Int16", "Int32", "Int64", "UInt8", "UInt16",
                "UInt32", "UInt64", "Float32", "Float64", "Utf8", "Binary", "Timestamp"}
NestedTypes == {"List", "FixedSizeList", "Struct", "Map"}

\* the Value variant read for a scalar column type
ScalarVariant(t) ==
    CASE t = "Boolean" -> "Bool"
      [] t = "Int8" -> "I8"
      [] t = "Int16" -> "I16"
      [] t = "Int32" -> "I32"
      [] t = "Int64" -> "I64"
      [] t = "UInt8" -> "U8"
      [] t = "UInt16" -> "U16"
      [] t = "UInt32" -> "U32"
      [] t = "UInt64" -> "U64"
      [] t = "Float32" -> "F32"
      [] t = "Float64" -> "F64"
      [] t = "Utf8" -> "String"
      [] t = "Binary" -> "Bytes"
      [] t = "Timestamp" -> "I64"
      [] OTHER -> "Null"

\* scalar_value_for_datatype: Ok(Some(scalar)) for a scalar column type,
\* Ok(None) (scalar = FALSE) for a nested one, Err on a variant mismatch.
scalar_value_for_datatype(dt, value) ==
    IF dt.t \notin ScalarTypes
    THEN [scalar |-> FALSE, err |-> NoErr, some |-> FALSE, v |-> 0]
    ELSE IF dt.t = "Null"
    THEN [scalar |-> TRUE, err |-> NoErr, some |-> FALSE, v |-> 0]
    ELSE LET r == try_scalar(value, ScalarVariant(dt.t))
         IN  [scalar |-> TRUE, err |-> r.err, some |-> r.some, v |-> r.v]

\* ------------------------------------------------------------------------
\* Builders and arrays.  valid[i] is the validity of slot i; vals[i] the
\* payload of a scalar slot; offs[i] the end offset in the child of row i
\* of a list or map; ch the child builders.  nullable[i] is the nullable
\* flag of the Field of child i, as handed to with_field / StructBuilder::new
\* / with_keys_field / with_values_field.
\* ------------------------------------------------------------------------
RECURSIVE make_builder(_)
make_builder(dt) ==
    [t |-> dt.t, size |-> dt.size, len |-> 0, valid |-> <<>>, vals |-> <<>>, offs |-> <<>>,
     nullable |-> [i \in 1..Len(dt.fields) |-> dt.fields[i].nullable],
     ch |-> [i \in 1..Len(dt.fields) |-> make_builder(dt.fields[i].dt)]]

RECURSIVE Supported(_)
Supported(dt) ==
    /\ dt.t \in ScalarTypes \cup NestedTypes
    /\ \A i \in 1..Len(dt.fields) : Supported(dt.fields[i].dt)

append_scalar_dynBug(b, some, v) ==
    [b EXCEPT !.len = @ + 1,
              !.valid = Append(@, b.t # "Null"),
              !.vals = Append(@, IF some /\ b.t # "Null" THEN v ELSE 0)]

append_scalar_dyn(b, some, v) ==
    [b EXCEPT !.len = @ + 1,
              !.valid = Append(@, some /\ b.t # "Null"),
              !.vals = Append(@, IF some /\ b.t # "Null" THEN v ELSE 0)]

\* close a row of a list, fixed-size-list, struct or map builder
append_row(b, valid) ==
    [b EXCEPT !.len = @ + 1,
              !.valid = Append(@, valid),
              !.offs = Append(@, IF Len(b.ch) > 0 THEN b.ch[1].len ELSE 0)]

\* first slot of row r in the child of a list or map array
RowStart(arr, r) == IF r = 1 THEN 0 ELSE arr.offs[r - 1]

Nulls(n) == [i \in 1..n |-> VNull]

RECURSIVE append_value_to_builder(_, _, _)
RECURSIVE append_items(_, _, _, _)
RECURSIVE append_struct_fields(_, _, _, _)
RECURSIVE append_entries(_, _, _, _)

\* for item in items { append_value_to_builder(child, elem_dt, item)?; }
\* On Err the child keeps what was appended before the failing item.
append_items(child, elem_dt, items, i) ==
    IF i > Len(items) THEN [err |-> NoErr, b |-> child]
    ELSE LET r == append_value_to_builder(child, elem_dt, items[i])
         IN  IF r.err.is THEN r ELSE append_items(r.b, elem_dt, items, i + 1)

append_list_elements(child, elem_dt, value) ==
    IF value.k = "List"
    THEN LET r == append_items(child, elem_dt, value.c, 1)
         IN  [err |-> r.err, valid |-> TRUE, b |-> r.b]
    ELSE IF value.k = "Null" THEN [err |-> NoErr, valid |-> FALSE, b |-> child]
    ELSE [err |-> type_mismatch(value, "List"), valid |-> FALSE, b |-> child]

append_fixed_size_list_elementsBug(child, elem_dt, size, value) ==
    IF value.k = "Array"
    THEN LET n == IF Len(value.c) < size THEN Len(value.c) ELSE size
             padded == [i \in 1..size |-> IF i <= n THEN value.c[i] ELSE VNull]
             r == append_items(child, elem_dt, padded, 1)
         IN  [err |-> r.err, valid |-> TRUE, b |-> r.b]
    ELSE IF value.k = "Null"
    THEN LET r == append_items(child, elem_dt, Nulls(size), 1)
         IN  [err |-> r.err, valid |-> FALSE, b |-> r.b]
    ELSE [err |-> type_mismatch(value, "Array"), valid |-> FALSE, b |-> child]

append_fixed_size_list_elements(child, elem_dt, size, value) ==
    IF value.k = "Array"
    THEN IF Len(value.c) # size
         THEN [err |-> ValueTypeError("FixedSizeList(length=" \o ToString(size) \o ")",
                                      "Array(length=" \o ToString(Len(value.c)) \o ")"),
               valid |-> FALSE, b |-> child]
         ELSE LET r == append_items(child, elem_dt, value.c, 1)
              IN  [err |-> r.err, valid |-> TRUE, b |-> r.b]
    ELSE IF value.k = "Null"
    THEN LET r == append_items(child, elem_dt, Nulls(size), 1)
         IN  [err |-> r.err, valid |-> FALSE, b |-> r.b]
    ELSE [err |-> type_mismatch(value, "Array"), valid |-> FALSE, b |-> child]

RECURSIVE append_struct_fieldsBug(_, _, _, _)
append_struct_fieldsBug(b, fields, children, i) ==
    IF i > Len(fields) \/ i > Len(children) THEN [err |-> NoErr, b |-> b]
    ELSE LET r == append_value_to_builder(b.ch[i], fields[i].dt, children[i])
             nb == [b EXCEPT !.ch[i] = r.b]
         IN  IF r.err.is THEN [err |-> r.err, b |-> nb]
             ELSE append_struct_fieldsBug(nb, fields, children, i + 1)

\* for (i, field) in fields.iter().enumerate():
\*     append_value_to_struct_field(b, i, dt, children.get(i).unwrap_or(Null))?
append_struct_fields(b, fields, children, i) ==
    IF i > Len(fields) THEN [err |-> NoErr, b |-> b]
    ELSE LET child_value == IF i <= Len(children) THEN children[i] ELSE VNull
             r == append_value_to_builder(b.ch[i], fields[i].dt, child_value)
             nb == [b EXCEPT !.ch[i] = r.b]
         IN  IF r.err.is THEN [err |-> r.err, b |-> nb]
             ELSE append_struct_fields(nb, fields, children, i + 1)

\* for (key, map_value) in entries: append key, then value
append_entries(b, fields, entries, i) ==
    IF i > Len(entries) THEN [err |-> NoErr, b |-> b]
    ELSE LET rk == append_value_to_builder(b.ch[1], fields[1].dt, entries[i][1])
             bk == [b EXCEPT !.ch[1] = rk.b]
         IN  IF rk.err.is THEN [err |-> rk.err, b |-> bk]
             ELSE LET rv == append_value_to_builder(bk.ch[2], fields[2].dt, entries[i][2])
                      bv == [bk EXCEPT !.ch[2] = rv.b]
                  IN  IF rv.err.is THEN [err |-> rv.err, b |-> bv]
                      ELSE append_entries(bv, fields, entries, i + 1)

append_map_entries(b, fields, value) ==
    IF value.k = "Map"
    THEN LET r == append_entries(b, fields, value.c, 1)
         IN  [err |-> r.err, valid |-> TRUE, b |-> r.b]
    ELSE IF value.k = "Null" THEN [err |-> NoErr, valid |-> FALSE, b |-> b]
    ELSE [err |-> type_mismatch(value, "Map"), valid |-> FALSE, b |-> b]

\* Result<(), ValueTypeError> together with the builder as the call left it
append_value_to_builder(b, dt, value) ==
    LET s == scalar_value_for_datatype(dt, value)
    IN  IF s.err.is THEN [err |-> s.err, b |-> b]
        ELSE IF s.scalar THEN [err |-> NoErr, b |-> append_scalar_dyn(b, s.some, s.v)]
        ELSE IF dt.t = "List"
        THEN LET r == append_list_elements(b.ch[1], dt.fields[1].dt, value)
                 nb == [b EXCEPT !.ch[1] = r.b]
             IN  IF r.err.is THEN [err |-> r.err, b |-> nb]
                 ELSE [err |-> NoErr, b |-> append_row(nb, r.valid)]
        ELSE IF dt.t = "FixedSizeList"
        THEN LET r == append_fixed_size_list_elements(b.ch[1], dt.fields[1].dt, dt.size, value)
                 nb == [b EXCEPT !.ch[1] = r.b]
             IN  IF r.err.is THEN [err |-> r.err, b |-> nb]
                 ELSE [err |-> NoErr, b |-> append_row(nb, r.valid)]
        ELSE IF dt.t = "Struct"
        THEN IF value.k = "Struct"
             THEN LET r == append_struct_fields(b, dt.fields, value.c, 1)
                  IN  IF r.err.is THEN r ELSE [err |-> NoErr, b |-> append_row(r.b, TRUE)]
             ELSE IF value.k = "Null"
             THEN LET r == append_struct_fields(b, dt.fields, <<>>, 1)
                  IN  IF r.err.is THEN r ELSE [err |-> NoErr, b |-> append_row(r.b, FALSE)]
             ELSE [err |-> type_mismatch(value, "Struct"), b |-> b]
        ELSE \* Map
             LET r == append_map_entries(b, dt.fields, value)
             IN  IF r.err.is THEN [err |-> r.err, b |-> r.b]
                 ELSE [err |-> NoErr, b |-> append_row(r.b, r.valid)]

\* ------------------------------------------------------------------------
\* builder.finish() and RecordBatch::try_new: the checks the arrow builders
\* and the record batch constructor apply to what the appender wrote.
\* ------------------------------------------------------------------------
AllValid(a) == \A j \in 1..a.len : a.valid[j]

\* nulls of child i that no null of the parent row covers
UnmaskedNulls(b, i, rows_per_slot) ==
    \E j \in 1..b.ch[i].len :
        /\ ~b.ch[i].valid[j]
        /\ LET r == IF rows_per_slot = 0 THEN 0 ELSE ((j - 1) \div rows_per_slot) + 1
           IN  r \in 1..b.len => b.valid[r]

RECURSIVE finish_panicsLax(_)
finish_panicsLax(b) ==
    \/ \E i \in 1..Len(b.ch) : finish_panicsLax(b.ch[i])
    \/ /\ b.t = "Struct"
       /\ \E i \in 1..Len(b.ch) : b.ch[i].len # b.len
    \/ /\ b.t = "FixedSizeList"
       /\ b.ch[1].len # b.len * b.size
    \/ /\ b.t = "Map"
       /\ b.ch[1].len # b.ch[2].len

\* TRUE when finishing the builder panics
RECURSIVE finish_panics(_)
finish_panics(b) ==
    \/ \E i \in 1..Len(b.ch) : finish_panics(b.ch[i])
    \/ /\ b.t = "Struct"
       /\ \/ \E i \in 1..Len(b.ch) : b.ch[i].len # b.len
          \/ \E i \in 1..Len(b.ch) : ~b.nullable[i] /\ UnmaskedNulls(b, i, 1)
    \/ /\ b.t = "List"
       /\ ~b.nullable[1] /\ ~AllValid(b.ch[1])
    \/ /\ b.t = "FixedSizeList"
       /\ \/ b.ch[1].len # b.len * b.size
          \/ ~b.nullable[1] /\ UnmaskedNulls(b, 1, b.size)
    \/ /\ b.t = "Map"
       /\ \/ b.ch[1].len # b.ch[2].len
          \/ ~AllValid(b.ch[1])
          \/ ~b.nullable[2] /\ ~AllValid(b.ch[2])

\* RecordBatch::try_new returns Err: a column of another length than the
\* rest, or a null in a column declared non-nullable
try_new_fails(fields, arrays, num_rows) ==
    \E i \in 1..Len(fields) :
        \/ arrays[i].len # num_rows
        \/ ~fields[i].nullable /\ ~AllValid(arrays[i])

\* ------------------------------------------------------------------------
\* arrow_value_rows_to_record_batch (arrow_convert/mod.rs)
\* ------------------------------------------------------------------------
TimestampT == DScalar("Timestamp")

with_timestamp_fields(body_fields) ==
    <<Field("@log_time", TimestampT, FALSE), Field("@publish_time", TimestampT, FALSE)>>
        \o body_fields

\* children.get(field_index).unwrap_or(Null); Null for a Null root.
\* (a root of another variant panics: see RootPanics)
extract_field(root, field_index) ==
    IF root.k = "Struct" /\ field_index <= Len(root.c) THEN root.c[field_index] ELSE VNull

RootPanics(rows) == \E r \in 1..Len(rows) : rows[r].value.k \notin {"Struct", "Null"}

RECURSIVE append_all(_, _, _, _)
\* for value in values { append_value_to_builder(&mut builder, dt, value); }
\* The Result is not looked at: a failed append leaves the builder as the
\* failing call left it and the loop goes on with the next value.
append_all(b, dt, values, i) ==
    IF i > Len(values) THEN b
    ELSE append_all(append_value_to_builder(b, dt, values[i]).b, dt, values, i + 1)

build_array_from_values(dt, values) == append_all(make_builder(dt), dt, values, 1)

timestamp_array(times) ==
    [t |-> "Timestamp", size |-> 0, len |-> Len(times), valid |-> [i \in 1..Len(times) |-> TRUE],
     vals |-> times, offs |-> <<>>, nullable |-> <<>>, ch |-> <<>>]

NoBatch == [fields |-> <<>>, num_rows |-> 0, columns |-> <<>>]
Panic(msg) == [panic |-> TRUE, msg |-> msg, batch |-> NoBatch]

arrow_value_rows_to_record_batch(body_fields, rows) ==
    LET n == Len(rows)
        full == with_timestamp_fields(body_fields)
        body == [i \in 1..Len(body_fields) |->
                    build_array_from_values(body_fields[i].dt,
                        [r \in 1..n |-> extract_field(rows[r].value, i)])]
        arrays == <<timestamp_array([r \in 1..n |-> rows[r].log_time]),
                    timestamp_array([r \in 1..n |-> rows[r].publish_time])>> \o body
    IN  IF n = 0 THEN Panic("Cannot create RecordBatch from empty rows")
        ELSE IF \E r \in 1..n : rows[r].log_time > I64Max THEN Panic("log_time exceeds i64::MAX")
        ELSE IF \E r \in 1..n : rows[r].publish_time > I64Max
        THEN Panic("publish_time exceeds i64::MAX")
        ELSE IF Len(body_fields) > 0 /\ RootPanics(rows)
        THEN Panic("expected Struct or Null as message root")
        ELSE IF \E i \in 1..Len(body_fields) : ~Supported(body_fields[i].dt)
        THEN Panic("unsupported DataType for builder")
        ELSE IF \E i \in 1..Len(body) : finish_panics(body[i])
        THEN Panic("builder finish")
        ELSE IF try_new_fails(full, arrays, n)
        THEN Panic("RecordBatch::try_new failed: schema/array type mismatch")
        ELSE [panic |-> FALSE, msg |-> "",
              batch |-> [fields |-> full, num_rows |-> n, columns |-> arrays]]

\* ------------------------------------------------------------------------
\* Inputs of the row appender: body schemas and the values tried on them
\* ------------------------------------------------------------------------
Int32T == DScalar("Int32")
Utf8T == DScalar("Utf8")

Schemas ==
    << <<Field("x", Int32T, TRUE)>>,
       <<Field("x", Int32T, FALSE)>>,
       <<Field("x", DScalar("Int64"), TRUE)>>,
       <<Field("l", DList(Field("item", Int32T, TRUE)), TRUE)>>,
       <<Field("l", DList(Field("item", Int32T, FALSE)), TRUE)>>,
       <<Field("a", DFixedSizeList(Field("item", Int32T, TRUE), 2), TRUE)>>,
       <<Field("a", DFixedSizeList(Field("item", Int32T, FALSE), 2), TRUE)>>,
       <<Field("a", DFixedSizeList(Field("item", Int32T, TRUE), 2), FALSE)>>,
       <<Field("s", DStruct(<<Field("a", Int32T, TRUE), Field("b", Utf8T, FALSE)>>), TRUE)>>,
       <<Field("m", DMap(Field("key", Utf8T, FALSE), Field("value", Int32T, TRUE)), TRUE)>>,
       <<Field("m", DMap(Field("key", Utf8T, FALSE), Field("value", Int32T, FALSE)), TRUE)>>,
       <<Field("x", Int32T, TRUE), Field("a", DFixedSizeList(Field("item", Int32T, TRUE), 2), TRUE)>>,
       <<Field("s", DStruct(<<Field("f", DFixedSizeList(Field("item", Int32T, FALSE), 2), FALSE)>>),
               TRUE)>>,
       <<Field("l", DList(Field("item", DFixedSizeList(Field("item", Int32T, TRUE), 2), TRUE)),
               TRUE)>>,
       <<Field("d", DScalar("Date32"), TRUE)>>,
       <<Field("i8", DScalar("Int8"), TRUE)>>,
       <<Field("bin", DScalar("Binary"), TRUE)>> >>

RightScalar(dt, n) == [k |-> ScalarVariant(dt.t), v |-> n, c |-> <<>>]
\* a scalar of another variant than the column's: I64 for Int32, U8 for Int8,
\* String for Binary, I32 for the rest
WrongScalar(dt) ==
    IF dt.t = "Int32" THEN VI64(1)
    ELSE IF dt.t = "Int8" THEN VU8(1)
    ELSE IF dt.t = "Binary" THEN VString(1)
    ELSE VI32(1)

RECURSIVE SmallPool(_)
\* a few values per type: Null, well-shaped values, one array of wrong length
SmallPool(dt) ==
    IF dt.t = "List"
    THEN {VNull, VList(<<>>)} \cup {VList(<<x>>) : x \in SmallPool(dt.fields[1].dt)}
    ELSE IF dt.t = "FixedSizeList"
    THEN {VNull} \cup {VArray(<<x>>) : x \in SmallPool(dt.fields[1].dt)}
               \cup {VArray(<<x, x>>) : x \in SmallPool(dt.fields[1].dt)}
    ELSE IF dt.t = "Struct"
    THEN {VNull} \cup {VStruct(t) : t \in {f \in [1..Len(dt.fields) ->
                                     UNION {SmallPool(dt.fields[i].dt) : i \in 1..Len(dt.fields)}] :
                                     \A i \in 1..Len(dt.fields) : f[i] \in SmallPool(dt.fields[i].dt)}}
    ELSE IF dt.t = "Map"
    THEN {VNull, VMap(<<>>)}
             \cup {VMap(<< <<k, x>> >>) : k \in SmallPool(dt.fields[1].dt),
                                         x \in SmallPool(dt.fields[2].dt)}
    ELSE {VNull, RightScalar(dt, 1)}

\* SmallPool and values of another shape than the type
ColPool(dt) ==
    SmallPool(dt) \cup
    (IF dt.t = "List"
     THEN {VArray(<<VI32(1)>>), VList(<<VI32(1), VNull>>), VList(<<VI32(1), VI32(2)>>)}
     ELSE IF dt.t = "FixedSizeList"
     THEN {VArray(<<>>), VArray(<<VI32(1), VI32(2), VI32(3)>>), VArray(<<VI32(1), VNull>>),
           VArray(<<VI32(1), VI32(2)>>), VList(<<VI32(1), VI32(2)>>)}
     ELSE IF dt.t = "Struct"
     THEN {VStruct(<<>>), VStruct(<<VI32(1)>>), VStruct(<<VI32(1), VString(1), VI32(2)>>), VI32(1)}
     ELSE IF dt.t = "Map"
     THEN {VList(<<>>), VMap(<< <<VString(1), VI32(1)>>, <<VString(2), VNull>> >>)}
     ELSE {RightScalar(dt, 2), WrongScalar(dt)})

\* row roots: Null, a non-struct, and structs with too few, the right number of
\* and too many children
RootPool(fields) ==
    {VNull, VI32(1), VStruct(<<>>)}
      \cup {VStruct(t) : t \in {f \in [1..Len(fields) -> UNION {ColPool(fields[i].dt) : i \in 1..Len(fields)}] :
                                 /\ f[1] \in ColPool(fields[1].dt)
                                 /\ \A i \in 2..Len(fields) : f[i] \in SmallPool(fields[i].dt)}}
      \cup {VStruct(<<x, VI32(9), VI32(9)>>) : x \in SmallPool(fields[1].dt)}

DecodedMessage(log_time, publish_time, value) ==
    [log_time |-> log_time, publish_time |-> publish_time, value |-> value]

\* times of the row pushed at position n; a Null root also comes with
\* times that do not fit i64
TimePool(n, root) ==
    {<<10 + n, 20 + n>>} \cup
    (IF root.k = "Null" /\ n = 1 THEN {<<I64Max + 1, 20>>, <<10, I64Max + 1>>} ELSE {})

\* ------------------------------------------------------------------------
\* Schema IR and its conversion to Arrow (schema_convert.rs)
\* ------------------------------------------------------------------------
FieldDef(name, data_type, nullable) ==
    [name |-> name, element |-> [data_type |-> data_type, nullable |-> nullable]]
TPrim(t) == [t |-> t, size |-> 0, elems |-> <<>>]

ArrowScalarName(t) ==
    CASE t = "Null" -> "Null"
      [] t = "Bool" -> "Boolean"
      [] t = "I8" -> "Int8"
      [] t = "I16" -> "Int16"
      [] t = "I32" -> "Int32"
      [] t = "I64" -> "Int64"
      [] t = "U8" -> "UInt8"
      [] t = "U16" -> "UInt16"
      [] t = "U32" -> "UInt32"
      [] t = "U64" -> "UInt64"
      [] t = "F32" -> "Float32"
      [] t = "F64" -> "Float64"
      [] t = "String" -> "Utf8"
      [] OTHER -> "Binary"

RECURSIVE element_def_to_datatype(_)
\* elems of a Struct are FieldDefs; of a List or Array <<ElementDef>>; of a
\* Map <<key ElementDef, value ElementDef>>
element_def_to_datatype(elem) ==
    LET d == elem.data_type
    IN  IF d.t = "Struct"
        THEN DStruct([i \in 1..Len(d.elems) |->
                 Field(d.elems[i].name, element_def_to_datatype(d.elems[i].element),
                       d.elems[i].element.nullable)])
        ELSE IF d.t = "List"
        THEN DList(Field("item", element_def_to_datatype(d.elems[1]), d.elems[1].nullable))
        ELSE IF d.t = "Array"
        THEN DFixedSizeList(Field("item", element_def_to_datatype(d.elems[1]), d.elems[1].nullable),
                            d.size)
        ELSE IF d.t = "Map"
        THEN DMap(Field("key", element_def_to_datatype(d.elems[1]), d.elems[1].nullable),
                  Field("value", element_def_to_datatype(d.elems[2]), d.elems[2].nullable))
        ELSE DScalar(ArrowScalarName(d.t))

field_def_to_arrow_field(f) == Field(f.name, element_def_to_datatype(f.element), f.element.nullable)

field_defs_to_arrow_schema(fields) == [i \in 1..Len(fields) |-> field_def_to_arrow_field(fields[i])]

\* ------------------------------------------------------------------------
\* Encodings and decoder factories (mcap2arrow-core)
\* ------------------------------------------------------------------------
SchemaEncodingFrom(s) ==
    CASE s = "" -> [v |-> "None", s |-> ""]
      [] s = "protobuf" -> [v |-> "Protobuf", s |-> ""]
      [] s = "flatbuffer" -> [v |-> "FlatBuffer", s |-> ""]
      [] s = "ros1msg" -> [v |-> "Ros1Msg", s |-> ""]
      [] s = "ros2msg" -> [v |-> "Ros2Msg", s |-> ""]
      [] s = "ros2idl" -> [v |-> "Ros2Idl", s |-> ""]
      [] s = "omgidl" -> [v |-> "OmgIdl", s |-> ""]
      [] s = "jsonschema" -> [v |-> "JsonSchema", s |-> ""]
      [] OTHER -> [v |-> "Unknown", s |-> s]

MessageEncodingFrom(s) ==
    CASE s = "ros1" -> [v |-> "Ros1", s |-> ""]
      [] s = "cdr" -> [v |-> "Cdr", s |-> ""]
      [] s = "protobuf" -> [v |-> "Protobuf", s |-> ""]
      [] s = "flatbuffer" -> [v |-> "FlatBuffer", s |-> ""]
      [] s = "cbor" -> [v |-> "Cbor", s |-> ""]
      [] s = "msgpack" -> [v |-> "MsgPack", s |-> ""]
      [] s = "json" -> [v |-> "Json", s |-> ""]
      [] OTHER -> [v |-> "Unknown", s |-> s]

EncodingKey(schema_encoding, message_encoding) ==
    [schema_encoding |-> schema_encoding, message_encoding |-> message_encoding]

JsonKey == EncodingKey([v |-> "JsonSchema", s |-> ""], [v |-> "Json", s |-> ""])
ProtoKey == EncodingKey([v |-> "Protobuf", s |-> ""], [v |-> "Protobuf", s |-> ""])
Ros2Key == EncodingKey([v |-> "Ros2Msg", s |-> ""], [v |-> "Cdr", s |-> ""])

ValueFieldDefs == <<FieldDef("value", TPrim("I64"), TRUE)>>

\* The MessageDecoder implementations registered in the model.  build_ok is
\* the outcome of build_topic_decoder, field_defs what the topic decoder
\* reports, add what its decode adds to the payload number (two factories
\* of one key decode the same bytes to different values).
Factories ==
    { [id |-> 1, key |-> JsonKey, build_ok |-> TRUE, field_defs |-> ValueFieldDefs, add |-> 0],
      [id |-> 2, key |-> JsonKey, build_ok |-> TRUE, field_defs |-> ValueFieldDefs, add |-> 5],
      [id |-> 3, key |-> ProtoKey, build_ok |-> TRUE, field_defs |-> <<>>, add |-> 0],
      [id |-> 4, key |-> Ros2Key, build_ok |-> FALSE, field_defs |-> <<>>, add |-> 0] }

FactoryById(id) == CHOOSE f \in Factories : f.id = id

encoding_key(f) == f.key

\* TopicDecoder::decode of the test decoders: payload 0 does not decode
topic_decode(decoder, data) ==
    IF data = 0 THEN [ok |-> FALSE, value |-> VNull]
    ELSE [ok |-> TRUE, value |-> VStruct(<<VI64(data + FactoryById(decoder.factory).add)>>)]

\* ------------------------------------------------------------------------
\* MCAP files: the summary's channels and the message stream
\* ------------------------------------------------------------------------
NoSchema == [present |-> FALSE, name |-> "", encoding |-> ""]
SchemaOf(name, encoding) == [present |-> TRUE, name |-> name, encoding |-> encoding]

Channels ==
    { [id |-> 1, topic |-> "/decoded", schema |-> SchemaOf("Msg", "jsonschema"), message_encoding |-> "json"],
      [id |-> 2, topic |-> "/raw", schema |-> NoSchema, message_encoding |-> "json"],
      [id |-> 3, topic |-> "/dup", schema |-> SchemaOf("Msg", "jsonschema"), message_encoding |-> "json"],
      [id |-> 4, topic |-> "/dup", schema |-> SchemaOf("Msg", "jsonschema"), message_encoding |-> "json"],
      [id |-> 5, topic |-> "/pb", schema |-> SchemaOf("Pb", "protobuf"), message_encoding |-> "protobuf"],
      [id |-> 6, topic |-> "/ros", schema |-> SchemaOf("Ros", "ros2msg"), message_encoding |-> "cdr"],
      [id |-> 7, topic |-> "/custom", schema |-> SchemaOf("X", "custom"), message_encoding |-> "json"] }

Topics == {"/decoded", "/raw", "/dup", "/pb", "/ros", "/custom", "/unknown"}

\* message i of a stream: "ok" a payload of channel 1 that decodes, "bad" one
\* that does not, "other" a message of another channel, "err" a record the
\* container reader fails on
MsgKinds == {"ok", "bad", "other", "err"}
Message(kind, i) ==
    [err |-> kind = "err",
     channel_id |-> IF kind = "other" THEN 2 ELSE 1,
     log_time |-> 10 + i, publish_time |-> 20 + i,
     data |-> IF kind = "bad" THEN 0 ELSE i]

Streams == UNION {{[i \in 1..n |-> Message(ks[i], i)] : ks \in [1..n -> MsgKinds]} : n \in 0..MaxMsgs}

Files ==
    {[exists |-> TRUE, summary |-> TRUE, stream |-> s] : s \in Streams}
      \cup {[exists |-> TRUE, summary |-> FALSE, stream |-> <<>>],
            [exists |-> FALSE, summary |-> FALSE, stream |-> <<>>]}

\* the files a call on topic t is tried on: every file for the topic that has
\* messages, streams of one kind of message for the others
FilesFor(t) ==
    IF t = "/decoded" THEN Files
    ELSE {f \in Files : \A i \in 1..Len(f.stream) : f.stream[i].data = i /\ f.stream[i].channel_id = 1
                                                    /\ ~f.stream[i].err}

\* ------------------------------------------------------------------------
\* McapReader (mcap2arrow/src/reader.rs): pure parts
\* ------------------------------------------------------------------------
DefaultBatchSize == 1024

register_shared_decoderBug(decoders, decoder) ==
    IF \E e \in decoders : e.key = encoding_key(decoder)
    THEN decoders
    ELSE decoders \cup {[key |-> encoding_key(decoder), f |-> decoder.id]}

\* self.decoders.insert(decoder.encoding_key(), decoder): the HashMap as the
\* set of its entries
register_shared_decoder(decoders, decoder) ==
    {e \in decoders : e.key # encoding_key(decoder)}
        \cup {[key |-> encoding_key(decoder), f |-> decoder.id]}

RECURSIVE register_all(_, _, _)
\* for decoder in self.decoders { reader.register_shared_decoder(decoder); }
register_all(decoders, list, i) ==
    IF i > Len(list) THEN decoders
    ELSE register_all(register_shared_decoder(decoders, FactoryById(list[i])), list, i + 1)

NoFactory == 0

\* self.decoders.get(&key): the factory id, NoFactory for None
find_decoder(decoders, schema_enc, message_enc) ==
    LET key == EncodingKey(schema_enc, message_enc)
    IN  IF \E e \in decoders : e.key = key
        THEN [err |-> "", f |-> (CHOOSE e \in decoders : e.key = key).f]
        ELSE [err |-> "NoDecoder", f |-> NoFactory]

NoChannel == [id |-> 0, topic |-> "", schema |-> NoSchema, message_encoding |-> ""]

get_channel_from_summaryBug(channels, topic) ==
    LET m == {ch \in channels : ch.topic = topic}
    IN  IF m = {} THEN [err |-> "TopicNotFound", channels |-> {NoChannel}]
        ELSE [err |-> "", channels |-> m]

\* the channels the call can return: the iteration order of the summary's
\* map decides which one is `first`, and that only matters to the error
get_channel_from_summary(channels, topic) ==
    LET m == {ch \in channels : ch.topic = topic}
    IN  IF m = {} THEN [err |-> "TopicNotFound", channels |-> {NoChannel}]
        ELSE IF Cardinality(m) > 1 THEN [err |-> "MultipleChannels", channels |-> {NoChannel}]
        ELSE [err |-> "", channels |-> m]

get_schema_from_channel(channel) ==
    IF channel.schema.present THEN [err |-> "", schema |-> channel.schema]
    ELSE [err |-> "SchemaNotAvailable", schema |-> NoSchema]

NoDecoderBuilt == [serial |-> 0, factory |-> NoFactory]

build_topic_decoderBug(fac, builds) ==
    [ok |-> fac.build_ok,
     decoder |-> [serial |-> builds + 2, factory |-> fac.id],
     field_defs |-> fac.field_defs,
     builds |-> builds + 2]

\* decoder.build_topic_decoder(&schema.name, &schema.data): the one place
\* schema bytes are parsed.  The TopicDecoder is named by the serial number
\* of the call that built it.
build_topic_decoder(fac, builds) ==
    [ok |-> fac.build_ok,
     decoder |-> [serial |-> builds + 1, factory |-> fac.id],
     field_defs |-> fac.field_defs,
     builds |-> builds + 1]

NoContext == [channel_id |-> 0, decoder |-> NoDecoderBuilt, field_defs |-> <<>>, arrow_schema |-> <<>>]

\* resolve_topic_batch_context; builds = number of build_topic_decoder calls
\* made so far, and the TopicDecoder built is named by the serial of its call
resolve_topic_batch_context(decoders, channels, topic, builds) ==
    LET c == get_channel_from_summary(channels, topic)
        channel == CHOOSE ch \in c.channels : TRUE
        sc == get_schema_from_channel(channel)
        fd == find_decoder(decoders, SchemaEncodingFrom(sc.schema.encoding),
                           MessageEncodingFrom(channel.message_encoding))
        td == build_topic_decoder(FactoryById(fd.f), builds)
        Fail(e, b) == [err |-> e, context |-> NoContext, builds |-> b]
    IN  IF c.err # "" THEN Fail(c.err, builds)
        ELSE IF sc.err # "" THEN Fail(sc.err, builds)
        ELSE IF fd.err # "" THEN Fail(fd.err, builds)
        ELSE IF ~td.ok THEN Fail("SchemaDerivationFailed", td.builds)
        ELSE IF td.field_defs = <<>> THEN Fail("EmptyDerivedSchema", td.builds)
        ELSE [err |-> "",
              context |-> [channel_id |-> channel.id,
                           decoder |-> td.decoder,
                           field_defs |-> td.field_defs,
                           arrow_schema |-> field_defs_to_arrow_schema(td.field_defs)],
              builds |-> td.builds]

decode_or_failBug(d) == [stop |-> FALSE, value |-> IF d.ok THEN d.value ELSE VNull]

\* context.decoder.decode(&message.data).map_err(MessageDecodeFailed)?
decode_or_fail(d) == [stop |-> ~d.ok, value |-> d.value]

decoded_messageBug(message, value) ==
    DecodedMessage(message.publish_time, message.log_time, value)

\* DecodedMessage { log_time: message.log_time, publish_time: .., value }
decoded_message(message, value) ==
    DecodedMessage(message.log_time, message.publish_time, value)

\* the callback of the run fails on its fail_at-th invocation (0: never)
callback_ok(fail_at, invocation) == invocation # fail_at

flush_batchKeep(schema, rows, calls, fail_at) ==
    IF rows = <<>> THEN [err |-> "", rows |-> rows, called |-> FALSE, batch |-> NoBatch]
    ELSE LET r == arrow_value_rows_to_record_batch(schema, rows)
         IN  IF r.panic THEN [err |-> "panic", rows |-> rows, called |-> FALSE, batch |-> NoBatch]
             ELSE [err |-> IF callback_ok(fail_at, calls + 1) THEN "" ELSE "Callback",
                   rows |-> rows, called |-> TRUE, batch |-> r.batch]

flush_batchSwallow(schema, rows, calls, fail_at) ==
    IF rows = <<>> THEN [err |-> "", rows |-> rows, called |-> FALSE, batch |-> NoBatch]
    ELSE LET r == arrow_value_rows_to_record_batch(schema, rows)
         IN  IF r.panic THEN [err |-> "panic", rows |-> rows, called |-> FALSE, batch |-> NoBatch]
             ELSE [err |-> "", rows |-> <<>>, called |-> TRUE, batch |-> r.batch]

flush_batchBug(schema, rows, calls, fail_at) ==
    LET r == arrow_value_rows_to_record_batch(schema, rows)
    IN  IF r.panic THEN [err |-> "panic", rows |-> rows, called |-> FALSE, batch |-> NoBatch]
        ELSE [err |-> IF callback_ok(fail_at, calls + 1) THEN "" ELSE "Callback",
              rows |-> <<>>, called |-> TRUE, batch |-> r.batch]

\* flush_batch: nothing for an empty buffer; otherwise build the batch, clear
\* the buffer, call the callback.  calls = invocations of the callback so far.
flush_batch(schema, rows, calls, fail_at) ==
    IF rows = <<>> THEN [err |-> "", rows |-> rows, called |-> FALSE, batch |-> NoBatch]
    ELSE LET r == arrow_value_rows_to_record_batch(schema, rows)
         IN  IF r.panic THEN [err |-> "panic", rows |-> rows, called |-> FALSE, batch |-> NoBatch]
             ELSE [err |-> IF callback_ok(fail_at, calls + 1) THEN "" ELSE "Callback",
                   rows |-> <<>>, called |-> TRUE, batch |-> r.batch]

\* ------------------------------------------------------------------------
\* Flatten pass (flatten.rs).  A FlattenPolicy is the record the callers
\* build: [list, list_flatten_fixed_size, array, map, struct_].  A selection
\* index is a row number counted from 0, NoIndex standing for None.
\* ------------------------------------------------------------------------
MaxFlat == 3

NoIndex == 0 - 1

RECURSIVE take(_, _)
RECURSIVE list_child_indices(_, _, _)
RECURSIVE fixed_child_indices(_, _, _)

\* child slots of the list (or map) rows selected, in order; a row that is
\* not selected or is null contributes none
list_child_indices(values, indices, j) ==
    IF j > Len(indices) THEN <<>>
    ELSE LET i == indices[j]
             sel == IF i = NoIndex \/ ~values.valid[i + 1] THEN <<>>
                    ELSE [k \in 1..(values.offs[i + 1] - RowStart(values, i + 1)) |->
                              RowStart(values, i + 1) + k - 1]
         IN  sel \o list_child_indices(values, indices, j + 1)

\* child slots of the fixed-size-list rows selected: `size` slots per row
fixed_child_indices(values, indices, j) ==
    IF j > Len(indices) THEN <<>>
    ELSE LET i == indices[j]
             sel == [k \in 1..values.size |->
                        IF i = NoIndex THEN NoIndex ELSE i * values.size + k - 1]
         IN  sel \o fixed_child_indices(values, indices, j + 1)

\* end offsets of the rows of a taken list
taken_offsets(values, indices) ==
    [j \in 1..Len(indices) |-> Len(list_child_indices(values, SubSeq(indices, 1, j), 1))]

\* arrow::compute::take with an index column that may hold nulls
take(values, indices) ==
    LET n == Len(indices)
        valid == [j \in 1..n |-> indices[j] # NoIndex /\ values.valid[indices[j] + 1]]
        head == [values EXCEPT !.len = n, !.valid = valid]
    IN  IF values.t = "Struct"
        THEN [head EXCEPT !.offs = [j \in 1..n |-> n],
                          !.ch = [c \in 1..Len(values.ch) |-> take(values.ch[c], indices)]]
        ELSE IF values.t \in {"List", "Map"}
        THEN [head EXCEPT !.offs = taken_offsets(values, indices),
                          !.ch = [c \in 1..Len(values.ch) |->
                                     take(values.ch[c], list_child_indices(values, indices, 1))]]
        ELSE IF values.t = "FixedSizeList"
        THEN [head EXCEPT !.offs = [j \in 1..n |-> j * values.size],
                          !.ch = <<take(values.ch[1], fixed_child_indices(values, indices, 1))>>]
        ELSE [head EXCEPT !.vals = [j \in 1..n |->
                                       IF indices[j] = NoIndex THEN 0
                                       ELSE values.vals[indices[j] + 1]]]

\* CommonPostProcess::from_list_policy, from_array_policy, from_map_policy
from_list_policy(policy) ==
    IF policy = "Drop" THEN "Drop" ELSE IF policy = "Keep" THEN "Keep" ELSE "None"

from_array_policy(policy) ==
    IF policy = "Drop" THEN "Drop" ELSE IF policy = "Keep" THEN "Keep" ELSE "None"

from_map_policy(policy) == IF policy = "Drop" THEN "Drop" ELSE "Keep"

from_struct_policyBug(policy) == "None"

\* StructPolicy::Keep passes the column through, StructPolicy::Flatten
\* leaves it to the recursion into the children
from_struct_policy(policy) == IF policy = "Keep" THEN "Keep" ELSE "None"

\* Collector
NoCollector == [fields |-> <<>>, arrays |-> <<>>, dropped |-> {}]

push(out, field, array) ==
    [out EXCEPT !.fields = Append(@, field), !.arrays = Append(@, array)]

keepBug(out, path, field, col) == push(out, Field(path, field.dt, TRUE), col)

keep(out, path, field, col) == push(out, Field(path, field.dt, field.nullable), col)

dropBug(out, path) == out

\* self.dropped.insert(path.to_string()); the BTreeSet is returned as the
\* sorted list of its elements
drop(out, path) == [out EXCEPT !.dropped = @ \cup {path}]

\* CommonPostProcess::apply
apply(post, path, field, col, out) ==
    IF post = "Drop" THEN drop(out, path)
    ELSE IF post = "Keep" THEN keep(out, path, field, col)
    ELSE out

\* (0..n): column i takes values[index_fn(row, i)] for every row and is
\* named {name}{sep}{i}.  index_fn is given as the table index[i + 1][row + 1].
expand_by_index(values, item_type, n_rows, n, name, sep, index) ==
    [c \in 1..n |->
        [field |-> Field(name \o sep \o ToString(c - 1), item_type, TRUE),
         array |-> take(values, [row \in 1..n_rows |-> index[c][row]])]]

fixed_index_fnBug(array, row, i) == row * array.size + i

\* |row, i| if array.is_null(row) { None } else { Some(row * n + i) }
fixed_index_fn(array, row, i) ==
    IF ~array.valid[row + 1] THEN NoIndex ELSE row * array.size + i

\* item_type is the item type of array.data_type()
expand_fixed_size_list(array, item_type, name, sep) ==
    LET n == array.size
    IN  expand_by_index(array.ch[1], item_type, array.len, n, name, sep,
            [c \in 1..n |-> [row \in 1..array.len |-> fixed_index_fn(array, row - 1, c - 1)]])

list_index_fnBug(array, row, i) ==
    IF ~array.valid[row + 1] THEN NoIndex
    ELSE LET start == RowStart(array, row + 1)
             end == array.offs[row + 1]
         IN  IF i < end - start THEN end - 1 - i ELSE NoIndex

\* |row, i|: None for a null row; Some(start + i) if i < end - start
list_index_fn(array, row, i) ==
    IF ~array.valid[row + 1] THEN NoIndex
    ELSE LET start == RowStart(array, row + 1)
             end == array.offs[row + 1]
         IN  IF i < end - start THEN start + i ELSE NoIndex

expand_list_fixed(array, item_type, name, n, sep) ==
    expand_by_index(array.ch[1], item_type, array.len, n, name, sep,
        [c \in 1..n |-> [row \in 1..array.len |-> list_index_fn(array, row - 1, c - 1)]])

RECURSIVE collect_columns(_, _, _, _, _, _)
RECURSIVE collect_children(_, _, _, _, _, _, _)
RECURSIVE collect_expanded(_, _, _, _, _)

\* for (i, child_field) in child_fields.iter().enumerate():
\*     collect_columns(child_field, "{path}{sep}{child}", struct_arr.column(i), ..)
collect_children(child_fields, struct_arr, path, sep, policy, out, i) ==
    IF i > Len(child_fields) THEN out
    ELSE collect_children(child_fields, struct_arr, path, sep, policy,
             collect_columns(child_fields[i], path \o sep \o child_fields[i].name,
                             struct_arr.ch[i], sep, policy, out),
             i + 1)

\* for (f, a) in expanded: collect_columns(&f, f.name(), &a, ..)
collect_expanded(pairs, sep, policy, out, i) ==
    IF i > Len(pairs) THEN out
    ELSE collect_expanded(pairs, sep, policy,
             collect_columns(pairs[i].field, pairs[i].field.name, pairs[i].array,
                             sep, policy, out),
             i + 1)

collect_columns(field, path, col, sep, policy, out) ==
    LET dt == field.dt
        expanded ==
            IF dt.t = "Struct"
            THEN IF from_struct_policy(policy.struct_) = "None"
                 THEN collect_children(dt.fields, col, path, sep, policy, out, 1)
                 ELSE out
            ELSE IF dt.t = "List" /\ policy.list = "FlattenFixed"
            THEN collect_expanded(
                     expand_list_fixed(col, dt.fields[1].dt, path,
                                       policy.list_flatten_fixed_size, sep),
                     sep, policy, out, 1)
            ELSE IF dt.t = "FixedSizeList" /\ policy.array = "Flatten"
            THEN collect_expanded(expand_fixed_size_list(col, dt.fields[1].dt, path, sep),
                                  sep, policy, out, 1)
            ELSE out
        common_post_process ==
            IF dt.t = "Struct" THEN from_struct_policy(policy.struct_)
            ELSE IF dt.t = "List" THEN from_list_policy(policy.list)
            ELSE IF dt.t = "FixedSizeList" THEN from_array_policy(policy.array)
            ELSE IF dt.t = "Map" THEN from_map_policy(policy.map)
            ELSE "Keep"
    IN  apply(common_post_process, path, field, col, expanded)

RECURSIVE collect_batch(_, _, _, _, _)
\* for (i, field) in batch.schema().fields().iter().enumerate()
collect_batch(batch, sep, policy, out, i) ==
    IF i > Len(batch.fields) THEN out
    ELSE collect_batch(batch, sep, policy,
             collect_columns(batch.fields[i], batch.fields[i].name, batch.columns[i],
                             sep, policy, out),
             i + 1)

Duplicates(fields) ==
    {i \in 1..Len(fields) : \E j \in 1..(i - 1) : fields[j].name = fields[i].name}

first_collisionBug(fields) ==
    LET d == {i \in 2..Len(fields) : fields[i - 1].name = fields[i].name}
    IN  IF d = {} THEN 0 ELSE CHOOSE i \in d : \A k \in d : i <= k

\* the first collected field whose name seen_names already holds; 0 if none
first_collision(fields) ==
    LET d == Duplicates(fields)
    IN  IF d = {} THEN 0 ELSE CHOOSE i \in d : \A k \in d : i <= k

NoFlat == [ok |-> FALSE, err |-> "", msg |-> "none", batch |-> NoBatch, dropped |-> {}]

InvalidArgumentError(msg) ==
    [ok |-> FALSE, err |-> "InvalidArgument", msg |-> msg, batch |-> NoBatch, dropped |-> {}]

\* RecordBatch::try_new(schema, arrays) as the pass calls it, followed by
\* Ok((result, dropped))
try_new(fields, arrays, dropped) ==
    LET nulls == {i \in 1..Len(fields) : ~fields[i].nullable /\ ~AllValid(arrays[i])}
    IN  IF Len(arrays) = 0
        THEN InvalidArgumentError("must either specify a row count or at least one column")
        ELSE IF nulls # {}
        THEN InvalidArgumentError("Column '"
                 \o fields[CHOOSE i \in nulls : \A k \in nulls : i <= k].name
                 \o "' is declared as non-nullable but contains null values")
        ELSE IF try_new_fails(fields, arrays, arrays[1].len)
        THEN InvalidArgumentError("all columns in a record batch must have the same length")
        ELSE [ok |-> TRUE, err |-> "", msg |-> "",
              batch |-> [fields |-> fields, num_rows |-> arrays[1].len, columns |-> arrays],
              dropped |-> dropped]

NoSeparator == ""

flatten_record_batch(batch, separator, policy) ==
    LET sep == IF separator = NoSeparator THEN "." ELSE separator
        collector == collect_batch(batch, sep, policy, NoCollector, 1)
        d == first_collision(collector.fields)
    IN  IF d # 0
        THEN InvalidArgumentError("flattening column name collision: '"
                                    \o collector.fields[d].name \o "'")
        ELSE try_new(collector.fields, collector.arrays, collector.dropped)

\* OutputFormat::default_policy
default_policy(format) ==
    IF format = "Jsonl"
    THEN [list |-> "Keep", list_flatten_fixed_size |-> 1, array |-> "Keep", map |-> "Keep",
          struct_ |-> "Keep"]
    ELSE IF format = "Csv"
    THEN [list |-> "Drop", list_flatten_fixed_size |-> 1, array |-> "Drop", map |-> "Drop",
          struct_ |-> "Flatten"]
    ELSE [list |-> "Keep", list_flatten_fixed_size |-> 1, array |-> "Keep", map |-> "Keep",
          struct_ |-> "Flatten"]

NoPolicy == default_policy("Jsonl")

\* the policies a caller can build; the size is 1 unless the list policy
\* is FlattenFixed
Policies ==
    {p \in [list : {"Drop", "Keep", "FlattenFixed"}, list_flatten_fixed_size : 0..MaxFlat,
            array : {"Drop", "Keep", "Flatten"}, map : {"Drop", "Keep"},
            struct_ : {"Keep", "Flatten"}] :
        p.list # "FlattenFixed" => p.list_flatten_fixed_size = 1}

Separators == {NoSeparator, "_"}

\* ---- input batches of the flatten pass -----------------------------------
\* arr with the validity bitmap given: a row can be null over child values
masked(arr, valid) == [arr EXCEPT !.valid = valid]

make_batch(fields, columns) ==
    [fields |-> fields, num_rows |-> columns[1].len, columns |-> columns]

ItemI32 == Field("item", Int32T, TRUE)
ListI32 == DList(ItemI32)
Fsl2I32 == DFixedSizeList(ItemI32, 2)
StructAB(a_nullable) == DStruct(<<Field("a", Int32T, a_nullable), Field("b", Utf8T, TRUE)>>)
StructA == DStruct(<<Field("a", Int32T, TRUE)>>)

I32s(s) == [i \in 1..Len(s) |-> VI32(s[i])]
ListRows == <<VList(I32s(<<1, 2, 3>>)), VList(I32s(<<4>>)), VNull>>
FslRows == <<VArray(I32s(<<1, 2>>)), VArray(I32s(<<3, 4>>)), VArray(<<VI32(5), VNull>>)>>

FlatBatches ==
    << \* 1: scalars only
       make_batch(<<Field("x", Int32T, FALSE), Field("y", Utf8T, TRUE)>>,
                  <<build_array_from_values(Int32T, I32s(<<1, 2>>)),
                    build_array_from_values(Utf8T, <<VString(1), VNull>>)>>),
       \* 2: a list with a long, a short and a null row
       make_batch(<<Field("x", Int32T, FALSE), Field("lst", ListI32, TRUE)>>,
                  <<build_array_from_values(Int32T, I32s(<<1, 2, 3>>)),
                    build_array_from_values(ListI32, ListRows)>>),
       \* 3: a fixed-size list whose second row is null over the values 3, 4
       make_batch(<<Field("x", Int32T, FALSE), Field("fsl", Fsl2I32, TRUE)>>,
                  <<build_array_from_values(Int32T, I32s(<<1, 2, 3>>)),
                    masked(build_array_from_values(Fsl2I32, FslRows), <<TRUE, FALSE, TRUE>>)>>),
       \* 4: a nullable struct with a non-nullable child and a null row
       make_batch(<<Field("s", StructAB(FALSE), TRUE)>>,
                  <<build_array_from_values(StructAB(FALSE),
                        <<VStruct(<<VI32(1), VString(1)>>), VNull>>)>>),
       \* 5: a struct whose second row is null over the child values 2, null
       make_batch(<<Field("x", Int32T, FALSE), Field("s", StructAB(TRUE), TRUE)>>,
                  <<build_array_from_values(Int32T, I32s(<<1, 2>>)),
                    masked(build_array_from_values(StructAB(TRUE),
                               <<VStruct(<<VI32(1), VString(1)>>), VStruct(<<VI32(2), VNull>>)>>),
                           <<TRUE, FALSE>>)>>),
       \* 6: a column named as the child of a struct is named when flattened
       make_batch(<<Field("s.a", Int32T, FALSE), Field("s", StructA, FALSE)>>,
                  <<build_array_from_values(Int32T, I32s(<<9, 8>>)),
                    build_array_from_values(StructA,
                        <<VStruct(<<VI32(1)>>), VStruct(<<VI32(2)>>)>>)>>),
       \* 7: the same with a column in between and a second colliding name
       make_batch(<<Field("s.b", Utf8T, TRUE), Field("s.a", Int32T, FALSE),
                    Field("x", Int32T, FALSE), Field("s", StructAB(TRUE), FALSE)>>,
                  <<build_array_from_values(Utf8T, <<VString(7), VNull>>),
                    build_array_from_values(Int32T, I32s(<<9, 8>>)),
                    build_array_from_values(Int32T, I32s(<<1, 2>>)),
                    build_array_from_values(StructAB(TRUE),
                        <<VStruct(<<VI32(1), VString(1)>>), VStruct(<<VNull, VString(2)>>)>>)>>),
       \* 8: columns named as the expansions of a list and of a fixed-size list
       make_batch(<<Field("lst.0", Int32T, TRUE), Field("lst", ListI32, TRUE),
                    Field("fsl_0", Int32T, TRUE), Field("fsl", Fsl2I32, TRUE)>>,
                  <<build_array_from_values(Int32T, I32s(<<9, 8, 7>>)),
                    build_array_from_values(ListI32, ListRows),
                    build_array_from_values(Int32T, I32s(<<6, 5, 4>>)),
                    build_array_from_values(Fsl2I32, FslRows)>>),
       \* 9: a fixed-size list inside a struct
       make_batch(<<Field("s", DStruct(<<Field("f", Fsl2I32, TRUE)>>), FALSE)>>,
                  <<build_array_from_values(DStruct(<<Field("f", Fsl2I32, TRUE)>>),
                        <<VStruct(<<VArray(I32s(<<1, 2>>))>>), VStruct(<<VNull>>)>>)>>),
       \* 10: a list of structs
       make_batch(<<Field("l", DList(Field("item", StructAB(TRUE), TRUE)), TRUE)>>,
                  <<build_array_from_values(DList(Field("item", StructAB(TRUE), TRUE)),
                        <<VList(<<VStruct(<<VI32(1), VString(1)>>),
                                  VStruct(<<VI32(2), VString(2)>>)>>),
                          VList(<<VStruct(<<VI32(3), VNull>>)>>)>>)>>),
       \* 11: a map
       make_batch(<<Field("x", Int32T, FALSE),
                    Field("m", DMap(Field("key", Utf8T, FALSE), Field("value", Int32T, TRUE)),
                          TRUE)>>,
                  <<build_array_from_values(Int32T, I32s(<<1, 2>>)),
                    build_array_from_values(
                        DMap(Field("key", Utf8T, FALSE), Field("value", Int32T, TRUE)),
                        <<VMap(<< <<VString(1), VI32(1)>> >>), VNull>>)>>),
       \* 12: two structs with a child of the same name
       make_batch(<<Field("s1", StructA, FALSE), Field("s2", StructA, FALSE)>>,
                  <<build_array_from_values(StructA, <<VStruct(<<VI32(1)>>), VStruct(<<VI32(2)>>)>>),
                    build_array_from_values(StructA, <<VStruct(<<VI32(3)>>), VStruct(<<VNull>>)>>)>>),
       \* 13: a fixed-size list of structs
       make_batch(<<Field("a", DFixedSizeList(Field("item", StructA, TRUE), 2), TRUE)>>,
                  <<build_array_from_values(DFixedSizeList(Field("item", StructA, TRUE), 2),
                        <<VArray(<<VStruct(<<VI32(1)>>), VStruct(<<VI32(2)>>)>>), VNull>>)>>),
       \* 14: nothing but a list, with an empty row and a null element
       make_batch(<<Field("lst", ListI32, TRUE)>>,
                  <<build_array_from_values(ListI32,
                        <<VList(<<>>), VList(<<VI32(5), VNull, VI32(6), VI32(7)>>)>>)>>),
       \* 15: a struct inside a struct
       make_batch(<<Field("s", DStruct(<<Field("t", StructA, TRUE), Field("c", Int32T, TRUE)>>),
                          FALSE)>>,
                  <<build_array_from_values(
                        DStruct(<<Field("t", StructA, TRUE), Field("c", Int32T, TRUE)>>),
                        <<VStruct(<<VStruct(<<VI32(1)>>), VI32(2)>>),
                          VStruct(<<VNull, VI32(3)>>)>>)>>),
       \* 16: a list of fixed-size lists
       make_batch(<<Field("l", DList(Field("item", Fsl2I32, TRUE)), TRUE)>>,
                  <<build_array_from_values(DList(Field("item", Fsl2I32, TRUE)),
                        <<VList(<<VArray(I32s(<<1, 2>>)), VArray(I32s(<<3, 4>>))>>),
                          VList(<<VNull>>)>>)>> ),
       \* 17: two columns of one name, as a message definition that declares
       \* a field twice gives
       make_batch(<<Field("x", Int32T, FALSE), Field("x", Utf8T, TRUE)>>,
                  <<build_array_from_values(Int32T, I32s(<<1, 2>>)),
                    build_array_from_values(Utf8T, <<VString(1), VNull>>)>>),
       \* 18: a list and a fixed-size list inside a struct, beside a list
       \* named as the one inside the struct
       make_batch(<<Field("x", Int32T, FALSE), Field("s.l", ListI32, TRUE),
                    Field("s", DStruct(<<Field("l", ListI32, TRUE), Field("f", Fsl2I32, TRUE)>>),
                          FALSE)>>,
                  <<build_array_from_values(Int32T, I32s(<<1, 2>>)),
                    build_array_from_values(ListI32, <<VList(I32s(<<1>>)), VNull>>),
                    build_array_from_values(
                        DStruct(<<Field("l", ListI32, TRUE), Field("f", Fsl2I32, TRUE)>>),
                        <<VStruct(<<VList(I32s(<<1, 2>>)), VArray(I32s(<<3, 4>>))>>),
                          VStruct(<<VNull, VNull>>)>>)>>) >>

\* ------------------------------------------------------------------------
\* CDR decoder (mcap2arrow-ros2-common/src/cdr.rs).  The bytes themselves
\* are not kept: a length prefix takes its value when it is read.
\* ------------------------------------------------------------------------
MaxBuf == 21
MaxSeq == 2

primitive_align_size(p) ==
    IF p \in {"I16", "U16"} THEN 2
    ELSE IF p \in {"I32", "U32", "F32"} THEN 4
    ELSE IF p \in {"I64", "U64", "F64"} THEN 8
    ELSE 1

\* bytes taken by the try_get_* call of decode_primitive
primitive_size(p) ==
    IF p \in {"I16", "U16"} THEN 2
    ELSE IF p \in {"I32", "U32", "F32"} THEN 4
    ELSE IF p \in {"I64", "U64", "F64"} THEN 8
    ELSE 1

\* ResolvedType; max is the bound of a string or sequence, NoMax for none
NoMax == 0 - 1
RPrimitive(p) == [k |-> "Primitive", p |-> p, max |-> NoMax]
RBoundedString(max) == [k |-> "BoundedString", p |-> "", max |-> max]
REnum == [k |-> "Enum", p |-> "", max |-> NoMax]
RSequence(elem, max_len) == [k |-> "Sequence", p |-> elem, max |-> max_len]

alignBug(current_offset, align_base, remaining, n) ==
    LET pad == (n - (current_offset % n)) % n
    IN  [err |-> remaining < pad, pad |-> pad]

\* Decoder::align: the padding, and Err if the buffer holds less
align(current_offset, align_base, remaining, n) ==
    LET relative_offset == current_offset - align_base
        pad == (n - (relative_offset % n)) % n
    IN  [err |-> remaining < pad, pad |-> pad]

\* self.align(n)? followed by a try_get_* of `size` bytes, from offset `offset`
aligned_read(offset, base, len, log, n, size) ==
    LET a == align(offset, base, len - offset, n)
    IN  IF a.err
        THEN [err |-> "buffer underflow while aligning", pos |-> offset, log |-> log,
              short |-> "padding"]
        ELSE IF len - (offset + a.pad) < size
        THEN [err |-> "unexpected EOF", pos |-> offset + a.pad, log |-> log,
              short |-> "read"]
        ELSE [err |-> "", pos |-> offset + a.pad + size,
              log |-> Append(log, [s |-> n, o |-> offset, at |-> offset + a.pad]),
              short |-> ""]

\* the message of a failed aligned read of the value at path: align has no
\* path to name, the try_get_* calls are mapped to "unexpected EOF at {path}"
read_error(r, path) ==
    IF r.short = "read" THEN r.err \o " at " \o path ELSE r.err

\* which read ran out of input, and the path of the value it was made for
Short(what, path) == [what |-> what, path |-> path]
NoShort == Short("", "")

\* a type to decode together with the path of its value
Item(ty, path) == [k |-> ty.k, p |-> ty.p, max |-> ty.max, path |-> path]

\* decode_struct: field_path = "{path}.{field.name}", the fields named f1, f2, ...
with_paths(fields) == [i \in 1..Len(fields) |-> Item(fields[i], "root.f" \o ToString(i))]

\* decode_type, Sequence: p = "{path}[{i}]" for i in 0..len
elements(ty, len) ==
    [i \in 1..len |-> Item(RPrimitive(ty.p), ty.path \o "[" \o ToString(i - 1) \o "]")]

\* the fields of the root struct in decode order, nested structs and
\* fixed-length arrays written out
CdrSchemas ==
    { <<RPrimitive("U8"), RPrimitive("F64")>>,
      <<RPrimitive("U8"), RPrimitive("I16"), RPrimitive("Bool"), RPrimitive("I32"),
        RPrimitive("Octet"), RPrimitive("I64")>>,
      <<RPrimitive("Bool"), RPrimitive("String"), RPrimitive("F64")>>,
      <<RSequence("U8", NoMax), RPrimitive("F64")>>,
      <<RPrimitive("U8"), RSequence("I16", 1), RPrimitive("U64")>>,
      <<REnum, RPrimitive("I8"), RPrimitive("U16"), RPrimitive("F32")>>,
      <<RPrimitive("U8"), RPrimitive("U8"), RPrimitive("U8"), RSequence("F64", NoMax)>>,
      <<RBoundedString(1), RPrimitive("U32")>>,
      <<RPrimitive("F64"), RPrimitive("WString")>>,
      <<RPrimitive("U16"), RPrimitive("U8"), RPrimitive("F64"), RPrimitive("U8")>>,
      <<RPrimitive("U8"), RSequence("String", NoMax)>> }

\* ------------------------------------------------------------------------
\* ROS 2 type resolver (mcap2arrow-ros2-common/src/type_resolver.rs).
\* all_structs and all_enums are given by their key sets; a key is a
\* sequence of name segments.
\* ------------------------------------------------------------------------
\* TypeExpr: a primitive, a scoped name, or a sequence of a scoped name
TPrimitive == [k |-> "Primitive", name |-> <<>>]
TScoped(name) == [k |-> "Scoped", name |-> name]
TSequence(name) == [k |-> "Sequence", name |-> name]

StructDef(full_name, fields) == [full_name |-> full_name, fields |-> fields]
NoStructDef == StructDef(<<>>, <<>>)

\* ResolvedType; elem is the kind of the element of a sequence
Resolved(k, key, elem) == [k |-> k, key |-> key, elem |-> elem]
Unresolved == Resolved("Err", <<>>, "")

BuiltinStructs ==
    {<<"builtin_interfaces", "msg", "Time">>, <<"builtin_interfaces", "msg", "Duration">>}

\* ensure_builtin_structs
ensure_builtin_structs(all_structs) == all_structs \cup BuiltinStructs

\* key[key.len() - wanted.len()..] == *wanted
EndsWith(key, wanted) ==
    /\ Len(key) >= Len(wanted)
    /\ SubSeq(key, Len(key) - Len(wanted) + 1, Len(key)) = wanted

\* the only key that ends with wanted; <<>> (None) if there is none or more
\* than one
find_by_suffix(keys, wanted) ==
    LET found == {key \in keys : EndsWith(key, wanted)}
    IN  IF Cardinality(found) = 1 THEN CHOOSE key \in found : TRUE ELSE <<>>

candidateBug(name, current_struct) == name

\* a single-segment name is put into the scope of the enclosing struct
candidate(name, current_struct) ==
    IF Len(name) = 1
    THEN SubSeq(current_struct, 1, Len(current_struct) - 1) \o name
    ELSE name

\* resolve_type_expr, TypeExpr::Scoped arm
resolve_scoped(name, current_struct, all_structs, all_enums) ==
    LET c == candidate(name, current_struct)
    IN  IF c \in all_structs THEN Resolved("Struct", c, "")
        ELSE IF c \in all_enums THEN Resolved("Enum", c, "")
        ELSE IF find_by_suffix(all_structs, c) # <<>>
        THEN Resolved("Struct", find_by_suffix(all_structs, c), "")
        ELSE IF find_by_suffix(all_enums, c) # <<>>
        THEN Resolved("Enum", find_by_suffix(all_enums, c), "")
        ELSE Unresolved

resolve_type_expr(expr, current_struct, all_structs, all_enums) ==
    IF expr.k = "Primitive" THEN Resolved("Primitive", <<>>, "")
    ELSE IF expr.k = "Sequence"
    THEN LET e == resolve_scoped(expr.name, current_struct, all_structs, all_enums)
         IN  IF e.k = "Err" THEN Unresolved ELSE Resolved("Sequence", e.key, e.k)
    ELSE resolve_scoped(expr.name, current_struct, all_structs, all_enums)

\* ---- inputs of the resolver ---------------------------------------------------
StructKeys ==
    {<<"a", "msg", "State">>, <<"b", "msg", "State">>, <<"a", "srv", "State">>,
     <<"x", "a", "msg", "State">>}

EnumKeys == {<<"a", "msg", "State">>, <<"b", "msg", "State">>, <<"a", "msg", "Time">>}

StructDefs ==
    {StructDef(full_name, fields) :
        full_name \in {<<"a", "msg", "Pose">>, <<"b", "msg", "Pose">>, <<"Pose">>},
        fields \in {<<TScoped(<<"State">>), TPrimitive, TSequence(<<"Time">>)>>,
                    <<TSequence(<<"State">>), TScoped(<<"b", "msg", "State">>),
                      TScoped(<<"Pose">>)>>,
                    <<TScoped(<<"Time">>), TScoped(<<"msg", "State">>),
                      TScoped(<<"State">>)>>}}

\* ---- resolve_parsed_section and the derivation of the FieldDefs -------------
MaxDepth == 8

resolve_structBug(def, all_structs, all_enums) ==
    [err |-> FALSE,
     fields |-> [i \in 1..Len(def.fields) |->
                    resolve_type_expr(def.fields[i], def.full_name, all_structs, all_enums)]]

\* resolve_struct: Err as soon as a field does not resolve
resolve_struct(def, all_structs, all_enums) ==
    LET tys == [i \in 1..Len(def.fields) |->
                   resolve_type_expr(def.fields[i], def.full_name, all_structs, all_enums)]
    IN  [err |-> \E i \in 1..Len(tys) : tys[i].k = "Err", fields |-> tys]

\* builtin_interfaces::msg::Time and Duration: { int32 sec; uint32 nanosec; }
builtin_struct(key) == StructDef(key, <<TPrimitive, TPrimitive>>)

\* parsed.structs as a map from key to StructDef, after ensure_builtin_structs
structs_map(defs) ==
    [key \in ensure_builtin_structs({d.full_name : d \in defs}) |->
        IF \E d \in defs : d.full_name = key
        THEN CHOOSE d \in defs : d.full_name = key
        ELSE builtin_struct(key)]

\* the struct a resolved field type refers to, <<>> if none
struct_of(ty) ==
    IF ty.k = "Struct" \/ (ty.k = "Sequence" /\ ty.elem = "Struct") THEN ty.key ELSE <<>>

\* a call of resolved_struct_to_field_defs for the struct at key, standing
\* at its field i
Frame(key, i) == [key |-> key, i |-> i]

\* ---- inputs of resolve_parsed_section ------------------------------------------
ExMsg(name) == <<"ex", "msg", name>>

SectionStructs ==
    {StructDef(ExMsg("Outer"), <<TScoped(<<"Inner">>),
                                 TScoped(<<"builtin_interfaces", "msg", "Time">>),
                                 TScoped(<<"Color">>)>>),
     StructDef(ExMsg("Inner"), <<TPrimitive>>),
     StructDef(ExMsg("Node"), <<TSequence(<<"Node">>), TPrimitive>>),
     StructDef(ExMsg("A"), <<TPrimitive, TSequence(<<"B">>)>>),
     StructDef(ExMsg("B"), <<TScoped(<<"ex", "msg", "A">>)>>)}

SectionEnums == {ExMsg("Color")}

SectionRoots == {ExMsg("Outer"), ExMsg("Inner"), ExMsg("Node"), ExMsg("A")}

\* ------------------------------------------------------------------------
\* Protobuf decoding and schema derivation (mcap2arrow-protobuf/src/
\* proto_to_arrow.rs, schema.rs, policy.rs)
\* ------------------------------------------------------------------------
MaxItems == 1

\* FieldDescriptor: kind is "Int32", "String" or "Message"; cardinality is
\* "singular", "list" or "map"; optional says the field is declared with
\* explicit presence (proto3 optional, proto2, oneof); fields are the fields
\* of the message type of a Message kind (for a map: of the value type)
FieldDescriptor(name, kind, cardinality, optional, fields) ==
    [name |-> name, kind |-> kind, cardinality |-> cardinality, optional |-> optional,
     fields |-> fields]

is_list(fd) == fd.cardinality = "list"
is_map(fd) == fd.cardinality = "map"

\* FieldDescriptor::supports_presence: never for repeated and map fields,
\* always for singular message fields, else by declaration
supports_presence(fd) ==
    fd.cardinality = "singular" /\ (fd.optional \/ fd.kind = "Message")

\* prost_reflect::Value; a Message holds one slot [set, value] per field
\* of its descriptor, a Map a sequence of <<key, value>>
PScalar(kind, n) == [k |-> kind, v |-> n, c |-> <<>>]
PMessage(slots) == [k |-> "Message", v |-> 0, c |-> slots]
PList(items) == [k |-> "List", v |-> 0, c |-> items]
PMap(entries) == [k |-> "Map", v |-> 0, c |-> entries]
Slot(set, value) == [set |-> set, value |-> value]

RECURSIVE default_value(_)
\* the value get_field returns for a field that is not populated
default_value(fd) ==
    IF is_list(fd) THEN PList(<<>>)
    ELSE IF is_map(fd) THEN PMap(<<>>)
    ELSE IF fd.kind = "Message"
    THEN PMessage([i \in 1..Len(fd.fields) |-> Slot(FALSE, default_value(fd.fields[i]))])
    ELSE PScalar(fd.kind, 0)

has_field(msg, i) == msg[i].set
get_field(msg, fd, i) == IF msg[i].set THEN msg[i].value ELSE default_value(fd)

map_key_to_value(key) == VI32(key)

RECURSIVE message_to_valueBug(_, _, _)
RECURSIVE message_to_value(_, _, _)
RECURSIVE proto_value_to_value(_, _, _)
\* kind is given by the descriptor of the field the value belongs to
proto_value_to_value(value, fd, policy) ==
    IF value.k = "Int32" THEN VI32(value.v)
    ELSE IF value.k = "String" THEN VString(value.v)
    ELSE IF value.k = "Message" THEN message_to_value(value.c, fd.fields, policy)
    ELSE IF value.k = "List"
    THEN VList([j \in 1..Len(value.c) |-> proto_value_to_value(value.c[j], fd, policy)])
    ELSE VMap([j \in 1..Len(value.c) |->
                  <<map_key_to_value(value.c[j][1]),
                    proto_value_to_value(value.c[j][2], fd, policy)>>])

message_to_valueBug(msg, fields, policy) ==
    VStruct([i \in 1..Len(fields) |->
        IF policy = "PresenceAware" /\ ~has_field(msg, i)
        THEN VNull
        ELSE proto_value_to_value(get_field(msg, fields[i], i), fields[i], policy)])

message_to_value(msg, fields, policy) ==
    VStruct([i \in 1..Len(fields) |->
        IF policy = "PresenceAware" /\ supports_presence(fields[i]) /\ ~has_field(msg, i)
        THEN VNull
        ELSE proto_value_to_value(get_field(msg, fields[i], i), fields[i], policy)])

\* DataTypeDef and ElementDef of the schema IR
ElementDef(data_type, nullable) == [data_type |-> data_type, nullable |-> nullable]
TStructDef(fields) == [t |-> "Struct", size |-> 0, elems |-> fields]
TListDef(element) == [t |-> "List", size |-> 0, elems |-> <<element>>]
TMapDef(key, value) == [t |-> "Map", size |-> 0, elems |-> <<key, value>>]

RECURSIVE message_fields_to_field_defs(_, _)
RECURSIVE kind_to_data_type_def(_, _)
kind_to_data_type_def(fd, policy) ==
    IF fd.kind = "Message" THEN TStructDef(message_fields_to_field_defs(fd.fields, policy))
    ELSE IF fd.kind = "Int32" THEN TPrim("I32")
    ELSE TPrim("String")

\* the key of a map is an Int32 here
field_descriptor_to_field_def(fd, policy) ==
    LET inner_dt == kind_to_data_type_def(fd, policy)
        dt == IF is_list(fd) THEN TListDef(ElementDef(inner_dt, FALSE))
              ELSE IF is_map(fd)
              THEN TMapDef(ElementDef(TPrim("I32"), FALSE), ElementDef(inner_dt, FALSE))
              ELSE inner_dt
        nullable == IF policy = "AlwaysDefault" THEN FALSE ELSE supports_presence(fd)
    IN  FieldDef(fd.name, dt, nullable)

message_fields_to_field_defs(fields, policy) ==
    [i \in 1..Len(fields) |-> field_descriptor_to_field_def(fields[i], policy)]

\* ---- inputs of the protobuf decoder -------------------------------------------
\* message Leaf { optional int32 a = 1; int32 b = 2; }
LeafFields ==
    <<FieldDescriptor("a", "Int32", "singular", TRUE, <<>>),
      FieldDescriptor("b", "Int32", "singular", FALSE, <<>>)>>

\* message Mid { Leaf leaf = 1; string s = 2; }
MidFields ==
    <<FieldDescriptor("leaf", "Message", "singular", FALSE, LeafFields),
      FieldDescriptor("s", "String", "singular", FALSE, <<>>)>>

MessageDescriptors ==
    {<<FieldDescriptor("count", "Int32", "singular", TRUE, <<>>),
       FieldDescriptor("child", "Message", "singular", FALSE, LeafFields),
       FieldDescriptor("items", "Message", "list", FALSE, LeafFields),
       FieldDescriptor("by_id", "Message", "map", FALSE, LeafFields)>>,
     <<FieldDescriptor("x", "Int32", "singular", FALSE, <<>>),
       FieldDescriptor("xs", "Int32", "list", FALSE, <<>>),
       FieldDescriptor("names", "String", "map", FALSE, <<>>),
       FieldDescriptor("mid", "Message", "singular", FALSE, MidFields)>>}

SeqsUpTo(S, n) == UNION {[1..m -> S] : m \in 0..n}

RECURSIVE DynamicMessages(_)
RECURSIVE Singles(_)
\* the values a single occurrence of the field's kind can take
Singles(fd) ==
    IF fd.kind = "Message" THEN {PMessage(m) : m \in DynamicMessages(fd.fields)}
    ELSE {PScalar(fd.kind, 1)}

\* a field with presence can be set to its default; one without is
\* populated exactly when it differs from the default
Slots(fd) ==
    IF is_list(fd)
    THEN {Slot(items # <<>>, PList(items)) : items \in SeqsUpTo(Singles(fd), MaxItems)}
    ELSE IF is_map(fd)
    THEN {Slot(vs # <<>>, PMap([j \in 1..Len(vs) |-> <<j, vs[j]>>])) :
             vs \in SeqsUpTo(Singles(fd), MaxItems)}
    ELSE {Slot(FALSE, default_value(fd))}
         \cup {Slot(TRUE, value) : value \in Singles(fd)}
         \cup (IF fd.kind # "Message" /\ supports_presence(fd)
               THEN {Slot(TRUE, PScalar(fd.kind, 0))} ELSE {})

DynamicMessages(fields) ==
    IF fields = <<>> THEN {<<>>}
    ELSE {<<s>> \o rest : s \in Slots(fields[1]), rest \in DynamicMessages(Tail(fields))}

\* ------------------------------------------------------------------------
\* The line parser of an IDL section (mcap2arrow-ros2idl/src/parser.rs).
\* A line is given with what the parsers of the lines make of it: kind is
\* "module", "struct" or "enum" for a line that module_decl, struct_decl or
\* enum_decl accepts (name is the identifier), "close" for "};" and "}",
\* "member" for a field declaration, "annotation" for a line that starts
\* with '@', "unsupported" for a union, bitmask or typedef, "other" for any
\* other text; open and close count its parentheses.  No line holds a
\* string literal, so ann_in_str and ann_escaped stay false.
\* ------------------------------------------------------------------------
MaxLines == 5

IdlLine(text, kind, name, open, close) ==
    [text |-> text, kind |-> kind, name |-> name, open |-> open, close |-> close]

IdlLines ==
    {IdlLine("module a {", "module", "a", 0, 0),
     IdlLine("module b {", "module", "b", 0, 0),
     IdlLine("struct S {", "struct", "S", 0, 0),
     IdlLine("enum E {", "enum", "E", 0, 0),
     IdlLine("};", "close", "", 0, 0),
     IdlLine("uint32 x;", "member", "x", 0, 0),
     IdlLine("@verbatim (", "annotation", "", 1, 0),
     IdlLine(")", "other", "", 0, 1),
     IdlLine("union U switch(uint8) {", "unsupported", "", 1, 1)}

\* current_struct: Option<(String, Vec<FieldDef>, Vec<ConstDef>)> and
\* current_enum: Option<(String, Vec<String>)>; a field is kept as its type
Current(name, members) == [some |-> TRUE, name |-> name, members |-> members]
NoCurrent == [some |-> FALSE, name |-> "", members |-> <<>>]

EnumDef(full_name, variants) == [full_name |-> full_name, variants |-> variants]

\* HashMap::insert: the definition replaces one of the same key
insert(map, def) == {d \in map : d.full_name # def.full_name} \cup {def}

\* a struct or an enum put into its map: what, under which name, at which line
Recorded(what, full_name, line_no) == [what |-> what, full_name |-> full_name, line |-> line_no]

\* the locals of parse_idl_section before the first line; err is the Err the
\* function has returned ("" while it runs), log the insertions so far
ParserStart ==
    [structs |-> {}, enums |-> {}, modules |-> <<>>, current_struct |-> NoCurrent,
     current_enum |-> NoCurrent, annotation_depth |-> 0, err |-> "", log |-> <<>>]

\* parse_field and parse_enum_variant of a line that reached them
parse_field(line) ==
    IF line.kind = "member" THEN [ok |-> TRUE, def |-> TPrimitive]
    ELSE [ok |-> FALSE, def |-> TPrimitive]

\* enum_variant takes the leading identifier of the line and leaves the rest
parse_enum_variant(line) ==
    IF line.kind = "member" THEN [ok |-> TRUE, name |-> "uint32"]
    ELSE [ok |-> FALSE, name |-> ""]

close_braceBug(st, line_no) ==
    IF st.modules # <<>>
    THEN [st EXCEPT !.modules = SubSeq(@, 1, Len(@) - 1)]
    ELSE IF st.current_struct.some
    THEN [st EXCEPT !.current_struct = NoCurrent,
                    !.structs = insert(@, StructDef(<<st.current_struct.name>>,
                                                    st.current_struct.members)),
                    !.log = Append(@, Recorded("struct", <<st.current_struct.name>>, line_no))]
    ELSE IF st.current_enum.some
    THEN [st EXCEPT !.current_enum = NoCurrent,
                    !.enums = insert(@, EnumDef(<<st.current_enum.name>>,
                                                st.current_enum.members)),
                    !.log = Append(@, Recorded("enum", <<st.current_enum.name>>, line_no))]
    ELSE [st EXCEPT !.err = "unmatched closing brace at line " \o ToString(line_no)]

\* the branch of the loop body for the line "};" or "}"
close_brace(st, line_no) ==
    IF st.current_struct.some
    THEN LET full == Append(st.modules, st.current_struct.name)
         IN  [st EXCEPT !.current_struct = NoCurrent,
                        !.structs = insert(@, StructDef(full, st.current_struct.members)),
                        !.log = Append(@, Recorded("struct", full, line_no))]
    ELSE IF st.current_enum.some
    THEN LET full == Append(st.modules, st.current_enum.name)
         IN  [st EXCEPT !.current_enum = NoCurrent,
                        !.enums = insert(@, EnumDef(full, st.current_enum.members)),
                        !.log = Append(@, Recorded("enum", full, line_no))]
    ELSE IF st.modules = <<>>
    THEN [st EXCEPT !.err = "unmatched closing brace at line " \o ToString(line_no)]
    ELSE [st EXCEPT !.modules = SubSeq(@, 1, Len(@) - 1)]

\* the body of `for (idx, raw) in idl_body.lines().enumerate()` for a line
\* that is not empty once its comment is stripped
parse_line(st, line, line_no) ==
    LET at == " at line " \o ToString(line_no)
        nested == st.current_struct.some \/ st.current_enum.some
    IN  IF st.annotation_depth > 0 \/ line.kind = "annotation"
        THEN [st EXCEPT !.annotation_depth = @ + line.open - line.close]
        ELSE IF line.kind = "unsupported"
        THEN [st EXCEPT !.err = "unsupported IDL declaration" \o at \o ": " \o line.text]
        ELSE IF line.kind = "module"
        THEN [st EXCEPT !.modules = Append(@, line.name)]
        ELSE IF line.kind = "struct"
        THEN IF nested
             THEN [st EXCEPT !.err = "nested declaration unsupported" \o at \o ": " \o line.text]
             ELSE [st EXCEPT !.current_struct = Current(line.name, <<>>)]
        ELSE IF line.kind = "enum"
        THEN IF nested
             THEN [st EXCEPT !.err = "nested declaration unsupported" \o at \o ": " \o line.text]
             ELSE [st EXCEPT !.current_enum = Current(line.name, <<>>)]
        ELSE IF line.kind = "close"
        THEN close_brace(st, line_no)
        ELSE IF st.current_struct.some
        THEN IF parse_field(line).ok
             THEN [st EXCEPT !.current_struct.members = Append(@, parse_field(line).def)]
             ELSE [st EXCEPT !.err = "parse error" \o at]
        ELSE IF st.current_enum.some
        THEN IF parse_enum_variant(line).ok
             THEN [st EXCEPT !.current_enum.members = Append(@, parse_enum_variant(line).name)]
             ELSE [st EXCEPT !.err = "parse error" \o at]
        ELSE [st EXCEPT !.err = "unexpected top-level statement" \o at \o ": " \o line.text]

\* after the loop: Ok(ParsedSection { structs, enums }) unless a declaration
\* is open
end_of_input(st) ==
    IF st.current_struct.some THEN "unclosed struct declaration"
    ELSE IF st.current_enum.some THEN "unclosed enum declaration"
    ELSE "Ok"

\* ------------------------------------------------------------------------
\* TopicDecoder::decode of the two decoders of the repository
\* (mcap2arrow-ros2-common/src/topic_decoder.rs, mcap2arrow-protobuf/src/
\* lib.rs).  A payload is given by what the decoders read of it: its length,
\* whether its header names little-endian, and tag for its content (the
\* value read at an offset is tag * 100 + the offset); for protobuf, whether
\* the bytes are a message of the descriptor, and that message.
\* ------------------------------------------------------------------------
MaxCalls == 3

Payload(len, little_endian, tag, wire_ok, msg) ==
    [len |-> len, little_endian |-> little_endian, tag |-> tag, wire_ok |-> wire_ok,
     msg |-> msg]

DecodeOk(value) == [ok |-> TRUE, value |-> value, err |-> ""]
\* DecoderError::MessageDecode { schema_name, source }
MessageDecode(source) == [ok |-> FALSE, value |-> VNull, err |-> source]

RECURSIVE decode_struct(_, _, _, _, _, _)
\* Decoder::decode_struct over primitive fields: every field is read by the
\* Decoder d of this call, from where the field before left it
decode_struct(fields, d, data, paths, i, acc) ==
    IF i > Len(fields) THEN DecodeOk(VStruct(acc))
    ELSE LET p == fields[i].p
             r == aligned_read(d.pos, d.align_base, d.initial_len, <<>>,
                               primitive_align_size(p), primitive_size(p))
         IN  IF r.err # ""
             THEN MessageDecode(read_error(r, paths[i]))
             ELSE decode_struct(fields, [d EXCEPT !.pos = r.pos], data, paths, i + 1,
                      Append(acc, [k |-> p, v |-> data.tag * 100 + (r.pos - primitive_size(p)),
                                   c |-> <<>>]))

\* Decoder::new(bytes)
Decoder_new(data) == [initial_len |-> data.len, pos |-> 0, align_base |-> 0]

decode_cdr_to_value(schema, data) ==
    LET d == Decoder_new(data)
    IN  IF d.initial_len - d.pos < 4 THEN MessageDecode("incomplete encapsulation header")
        ELSE IF ~data.little_endian THEN MessageDecode("unsupported CDR endianness")
        ELSE decode_struct(schema, [d EXCEPT !.pos = 4, !.align_base = 4], data,
                           [i \in 1..Len(schema) |-> "root.f" \o ToString(i)], 1, <<>>)

\* proto_to_arrow::decode_from_descriptor: DynamicMessage::decode, then
\* message_to_value
decode_from_descriptor(desc, data, policy) ==
    IF ~data.wire_ok THEN MessageDecode("failed to decode Protocol Buffers message")
    ELSE DecodeOk(message_to_value(data.msg, desc, policy))

\* Ros2CdrTopicDecoder::new and the ProtobufTopicDecoder that build_topic_decoder
\* returns.  schema is `resolved` or `desc`.
Ros2CdrTopicDecoder(resolved) ==
    [kind |-> "ros2", schema |-> resolved, presence_policy |-> "",
     field_defs |-> [i \in 1..Len(resolved) |-> [name |-> "f" \o ToString(i),
                                                  dt |-> resolved[i].p]]]

ProtobufTopicDecoder(desc, policy) ==
    [kind |-> "protobuf", schema |-> desc, presence_policy |-> policy,
     field_defs |-> message_fields_to_field_defs(desc, policy)]

NoTopicDecoder == [kind |-> "none", schema |-> <<>>, presence_policy |-> "", field_defs |-> <<>>]

decodeBug(self, message_data) ==
    LET r == IF self.kind = "ros2" THEN decode_cdr_to_value(self.schema, message_data)
             ELSE decode_from_descriptor(self.schema, message_data, self.presence_policy)
    IN  [self |-> IF r.ok THEN self ELSE [self EXCEPT !.schema = <<>>], result |-> r]

\* fn decode(&self, message_data: &[u8]) -> Result<Value, DecoderError>: the
\* decoder after the call and the result
decode(self, message_data) ==
    [self |-> self,
     result |-> IF self.kind = "ros2" THEN decode_cdr_to_value(self.schema, message_data)
                ELSE decode_from_descriptor(self.schema, message_data, self.presence_policy)]

\* ---- decoders and payloads ------------------------------------------------------
TopicDecoders ==
    {Ros2CdrTopicDecoder(<<RPrimitive("U8"), RPrimitive("F64")>>),
     Ros2CdrTopicDecoder(<<RPrimitive("U32"), RPrimitive("U8"), RPrimitive("U16")>>),
     ProtobufTopicDecoder(LeafFields, "PresenceAware"),
     ProtobufTopicDecoder(LeafFields, "AlwaysDefault")}

\* a cut header, a big-endian payload, payloads cut inside the padding and
\* inside a value, two full payloads of different content
CdrPayloads ==
    {Payload(2, TRUE, 1, FALSE, <<>>), Payload(16, FALSE, 1, FALSE, <<>>),
     Payload(5, TRUE, 1, FALSE, <<>>), Payload(10, TRUE, 1, FALSE, <<>>),
     Payload(16, TRUE, 1, FALSE, <<>>), Payload(16, TRUE, 2, FALSE, <<>>)}

ProtoPayloads ==
    {Payload(0, FALSE, 0, FALSE, <<>>)}
        \cup {Payload(0, FALSE, 0, TRUE, m) : m \in DynamicMessages(LeafFields)}

PayloadsOf(decoder) == IF decoder.kind = "ros2" THEN CdrPayloads ELSE ProtoPayloads

\* no value decoded yet, no schema derived yet
NoValue == [k |-> "none", v |-> 0, c |-> <<>>]
NoFieldDefs == <<[name |-> "none"]>>

\* ------------------------------------------------------------------------
\* State
\* ------------------------------------------------------------------------
VARIABLES
    a_schema, a_rows, a_out, a_pc,   \* the row appender on its own
    pc,            \* "builder", "reader", "loop", "done"
    bld_decoders,  \* McapReaderBuilder.decoders (factory ids)
    bld_batch,     \* McapReaderBuilder.batch_size
    decoders,      \* McapReader.decoders: set of [key, f]
    batch_size,    \* McapReader.batch_size
    reg_log,       \* factory ids in the order they were registered: history
                   \* of the configuration, dropped when the reader is used
    file, topic, fail_at,   \* arguments of the for_each_record_batch call
    context,       \* TopicBatchContext
    pos,           \* messages taken from the stream
    rows,          \* the row buffer
    delivered,     \* invocations of the callback: [batch, buffered]
    decode_log,    \* decode calls: [msg, decoder, ok]
    builds,        \* build_topic_decoder calls
    result,        \* "none" while running, then "Ok" or the error
    f_batch, f_sep, f_policy,   \* arguments of flatten_record_batch
    f_out,         \* its result
    f_again,       \* the result of the pass applied to its own output
    f_pc,          \* "off", "call", "done", "again"
    d_len,         \* Decoder.initial_len
    d_pos,         \* Decoder::current_offset()
    d_base,        \* Decoder.align_base
    d_todo,        \* the types still to decode, in order
    d_log,         \* the aligned reads made: [s, o, at]
    d_err,         \* "" or the error the decoder returned
    d_short,       \* the read that ran out of input: [what, path]
    d_strs,        \* the strings read: [path, at, len, nul, utf8, out]
    d_pc,          \* "off", "header", "fields", "done"
    t_structs, t_enums,   \* keys of all_structs and all_enums
    t_def,         \* the StructDef being resolved
    t_out,         \* the ResolvedFields so far
    t_err,         \* TRUE when resolve_struct returned Err
    t_pc,          \* "off", "fields", "done"
    p_desc, p_msg, p_policy,   \* MessageDescriptor, DynamicMessage, PresencePolicy
    p_value,       \* the decoded Value
    p_schema,      \* the derived FieldDefs
    p_pc,          \* "off", "call", "done"
    s_defs, s_enums, s_root,   \* parsed.structs, keys of parsed.enums, root
    s_out,         \* the map `out` of resolve_parsed_section
    s_res,         \* "none", then "Ok" or "Err": the result of resolve_parsed_section
    s_stack,       \* the calls of resolved_struct_to_field_defs that are open
    s_pc,          \* "off", "structs", "failed", "resolved", "derive", "derived",
                   \* "panic", "overflow"
    i_lines,       \* the lines of the IDL section read so far
    i_st,          \* the locals of parse_idl_section
    i_res,         \* "none", then "Ok" or the error of parse_idl_section
    i_pc,          \* "off", "lines", "done"
    k_built,       \* the TopicDecoder as it was built
    k_dec,         \* the TopicDecoder
    k_calls        \* the decode calls made on it: [data, result]

avars == <<a_schema, a_rows, a_out, a_pc>>
cvars == <<bld_decoders, bld_batch, decoders, batch_size, reg_log>>
runvars == <<file, topic, fail_at, context, pos, rows, delivered, decode_log, builds, result>>
fvars == <<f_batch, f_sep, f_policy, f_out, f_again, f_pc>>
\* the variables of the operations that are modelled on their own
dvars == <<d_len, d_pos, d_base, d_todo, d_log, d_err, d_short, d_strs, d_pc>>
tvars == <<t_structs, t_enums, t_def, t_out, t_err, t_pc>>
pvars == <<p_desc, p_msg, p_policy, p_value, p_schema, p_pc>>
svars == <<s_defs, s_enums, s_root, s_out, s_res, s_stack, s_pc>>
ivars == <<i_lines, i_st, i_res, i_pc>>
kvars == <<k_built, k_dec, k_calls>>
zvars == <<ivars, kvars>>
yvars == <<svars, zvars>>
xvars == <<fvars, dvars, tvars, pvars, yvars>>
\* the variables of the reader and of the row appender
basevars == <<avars, pc, cvars, runvars>>
vars == <<a_schema, a_rows, a_out, a_pc, pc, bld_decoders, bld_batch, decoders, batch_size,
          reg_log, file, topic, fail_at, context, pos, rows, delivered, decode_log, builds, result,
          f_batch, f_sep, f_policy, f_out, f_again, f_pc,
          d_len, d_pos, d_base, d_todo, d_log, d_err, d_short, d_strs, d_pc,
          t_structs, t_enums, t_def, t_out, t_err, t_pc,
          p_desc, p_msg, p_policy, p_value, p_schema, p_pc,
          s_defs, s_enums, s_root, s_out, s_res, s_stack, s_pc,
          i_lines, i_st, i_res, i_pc, k_built, k_dec, k_calls>>

NoOut == [panic |-> FALSE, msg |-> "none", batch |-> NoBatch]
NoFile == [exists |-> FALSE, summary |-> FALSE, stream |-> <<>>]

InitA ==
    /\ a_schema = Schemas[1]
    /\ a_rows = <<>>
    /\ a_out = NoOut
    /\ a_pc = "off"

InitR ==
    /\ bld_decoders = <<>>
    /\ bld_batch = DefaultBatchSize
    /\ decoders = {}
    /\ batch_size = DefaultBatchSize
    /\ reg_log = <<>>
    /\ file = NoFile
    /\ topic = ""
    /\ fail_at = 0
    /\ context = NoContext
    /\ pos = 0
    /\ rows = <<>>
    /\ delivered = <<>>
    /\ decode_log = <<>>
    /\ builds = 0
    /\ result = "none"

\* flatten_record_batch has not been called
InitF ==
    /\ f_batch = NoBatch
    /\ f_sep = ""
    /\ f_policy = NoPolicy
    /\ f_out = NoFlat
    /\ f_again = NoFlat
    /\ f_pc = "off"

\* decode_cdr_to_value has not been called
InitD ==
    /\ d_len = 0
    /\ d_pos = 0
    /\ d_base = 0
    /\ d_todo = <<>>
    /\ d_log = <<>>
    /\ d_err = ""
    /\ d_short = NoShort
    /\ d_strs = <<>>
    /\ d_pc = "off"

\* resolve_struct has not been called
InitT ==
    /\ t_structs = {}
    /\ t_enums = {}
    /\ t_def = NoStructDef
    /\ t_out = <<>>
    /\ t_err = FALSE
    /\ t_pc = "off"

\* no protobuf message has been decoded
InitP ==
    /\ p_desc = <<>>
    /\ p_msg = <<>>
    /\ p_policy = "PresenceAware"
    /\ p_value = NoValue
    /\ p_schema = NoFieldDefs
    /\ p_pc = "off"

\* resolve_parsed_section has not been called
InitS ==
    /\ s_defs = <<>>
    /\ s_enums = {}
    /\ s_root = <<>>
    /\ s_out = <<>>
    /\ s_res = "none"
    /\ s_stack = <<>>
    /\ s_pc = "off"

\* no IDL section is being parsed
InitI ==
    /\ i_lines = <<>>
    /\ i_st = ParserStart
    /\ i_res = "none"
    /\ i_pc = "off"

\* no TopicDecoder is in use
InitK ==
    /\ k_built = NoTopicDecoder
    /\ k_dec = NoTopicDecoder
    /\ k_calls = <<>>

InitZ == InitI /\ InitK

InitY == InitS /\ InitZ

InitX == InitF /\ InitD /\ InitT /\ InitP /\ InitY

\* McapReader::builder() or McapReader::new()
Init ==
    /\ InitA
    /\ InitR
    /\ InitX
    /\ pc \in {"builder", "reader"}

\* ---- configuration -------------------------------------------------------
\* McapReaderBuilder::with_decoder
WithDecoder ==
    /\ pc = "builder"
    /\ Len(bld_decoders) < MaxRegs
    /\ \E f \in Factories : bld_decoders' = Append(bld_decoders, f.id)
    /\ UNCHANGED <<pc, bld_batch, decoders, batch_size, reg_log, runvars, avars, xvars>>

\* McapReaderBuilder::with_batch_size
WithBatchSize ==
    /\ pc = "builder"
    /\ bld_batch = DefaultBatchSize
    /\ \E n \in 0..MaxBatch : bld_batch' = n
    /\ UNCHANGED <<pc, bld_decoders, decoders, batch_size, reg_log, runvars, avars, xvars>>

\* McapReaderBuilder::build; the builder is consumed
Build ==
    /\ pc = "builder"
    /\ pc' = "reader"
    /\ batch_size' = bld_batch
    /\ decoders' = register_all({}, bld_decoders, 1)
    /\ reg_log' = bld_decoders
    /\ bld_decoders' = <<>>
    /\ bld_batch' = DefaultBatchSize
    /\ UNCHANGED <<runvars, avars, xvars>>

\* McapReader::register_decoder / register_shared_decoder
RegisterDecoder ==
    /\ pc = "reader"
    /\ Len(reg_log) < MaxRegs
    /\ \E f \in Factories :
          /\ decoders' = register_shared_decoder(decoders, f)
          /\ reg_log' = Append(reg_log, f.id)
    /\ UNCHANGED <<pc, bld_decoders, bld_batch, batch_size, runvars, avars, xvars>>

\* ---- for_each_record_batch -----------------------------------------------
Stop(res) ==
    /\ pc' = "done"
    /\ result' = res

\* the call up to the loop: mmap_file, read_summary,
\* resolve_topic_batch_context, Vec::with_capacity
Begin ==
    /\ pc = "reader"
    /\ reg_log' = <<>>
    /\ \E t \in Topics : \E f \in FilesFor(t), k \in 0..2 :
          /\ file' = f
          /\ topic' = t
          /\ fail_at' = k
          /\ IF ~f.exists THEN Stop("Io") /\ UNCHANGED <<context, builds>>
             ELSE IF ~f.summary THEN Stop("SummaryNotAvailable") /\ UNCHANGED <<context, builds>>
             ELSE LET r == resolve_topic_batch_context(decoders, Channels, t, builds)
                  IN  /\ builds' = r.builds
                      /\ context' = r.context
                      /\ IF r.err # "" THEN Stop(r.err)
                         ELSE pc' = "loop" /\ result' = "none"
    /\ UNCHANGED <<bld_decoders, bld_batch, decoders, batch_size, pos, rows, delivered,
                   decode_log, avars, xvars>>

\* one iteration of `for message in MessageStream`
Step ==
    /\ pc = "loop"
    /\ pos < Len(file.stream)
    /\ pos' = pos + 1
    /\ LET message == file.stream[pos + 1]
           d == topic_decode(context.decoder, message.data)
           v == decode_or_fail(d)
           pushed == Append(rows, decoded_message(message, v.value))
           fl == flush_batch(context.arrow_schema, pushed, Len(delivered), fail_at)
       IN  IF message.err
           THEN Stop("Mcap") /\ UNCHANGED <<rows, delivered, decode_log>>
           ELSE IF message.channel_id # context.channel_id
           THEN UNCHANGED <<pc, result, rows, delivered, decode_log>>
           ELSE /\ decode_log' = Append(decode_log,
                                   [msg |-> pos + 1, decoder |-> context.decoder, ok |-> d.ok])
                /\ IF v.stop
                   THEN Stop("MessageDecodeFailed") /\ UNCHANGED <<rows, delivered>>
                   ELSE IF Len(pushed) >= batch_size
                   THEN /\ rows' = fl.rows
                        /\ delivered' = IF fl.called
                                        THEN Append(delivered, [batch |-> fl.batch,
                                                                buffered |-> Len(fl.rows)])
                                        ELSE delivered
                        /\ IF fl.err # "" THEN Stop(fl.err) ELSE UNCHANGED <<pc, result>>
                   ELSE rows' = pushed /\ UNCHANGED <<pc, result, delivered>>
    /\ UNCHANGED <<cvars, file, topic, fail_at, context, builds, avars, xvars>>

\* the stream is exhausted: the final flush_batch is the call's result
Finish ==
    /\ pc = "loop"
    /\ pos = Len(file.stream)
    /\ LET fl == flush_batch(context.arrow_schema, rows, Len(delivered), fail_at)
       IN  /\ rows' = fl.rows
           /\ delivered' = IF fl.called
                           THEN Append(delivered, [batch |-> fl.batch, buffered |-> Len(fl.rows)])
                           ELSE delivered
           /\ Stop(IF fl.err # "" THEN fl.err ELSE "Ok")
    /\ UNCHANGED <<cvars, file, topic, fail_at, context, pos, decode_log, builds, avars, xvars>>

Next == WithDecoder \/ WithBatchSize \/ Build \/ RegisterDecoder \/ Begin \/ Step \/ Finish

Spec == Init /\ [][Next]_vars

\* ---- the row appender on its own ------------------------------------------
InitAppend ==
    /\ InitR
    /\ InitX
    /\ pc = "off"
    /\ a_schema \in {Schemas[i] : i \in 1..Len(Schemas)}
    /\ a_rows = <<>>
    /\ a_out = NoOut
    /\ a_pc = "rows"

\* the caller collects one more row
PushRow ==
    /\ a_pc = "rows"
    /\ Len(a_rows) < MaxRows
    /\ \E root \in RootPool(a_schema) : \E tm \in TimePool(Len(a_rows) + 1, root) :
          a_rows' = Append(a_rows, DecodedMessage(tm[1], tm[2], root))
    /\ UNCHANGED <<a_schema, a_out, a_pc, pc, cvars, runvars, xvars>>

\* arrow_value_rows_to_record_batch(schema, rows)
Convert ==
    /\ a_pc = "rows"
    /\ a_out' = arrow_value_rows_to_record_batch(a_schema, a_rows)
    /\ a_pc' = "done"
    /\ UNCHANGED <<a_schema, a_rows, pc, cvars, runvars, xvars>>

NextAppend == PushRow \/ Convert

SpecAppend == InitAppend /\ [][NextAppend]_vars

\* ------------------------------------------------------------------------
\* Properties of for_each_record_batch
\* ------------------------------------------------------------------------
\* the run got past resolve_topic_batch_context
Running == pc \in {"loop", "done"} /\ context # NoContext

\* the messages of the selected channel among the first n of the stream
ChannelMsgs(n) ==
    SelectSeq(SubSeq(file.stream, 1, n), LAMBDA m : m.channel_id = context.channel_id)

StreamReadable == \A i \in 1..Len(file.stream) : ~file.stream[i].err
AllDecode == \A i \in 1..Len(file.stream) :
                 file.stream[i].channel_id = context.channel_id => file.stream[i].data # 0

\* what row k of the output has to carry for message m
ExpectedRow(m) ==
    <<m.log_time, m.publish_time, topic_decode(context.decoder, m.data).value>>
ExpectedRows(n) == [k \in 1..Len(ChannelMsgs(n)) |-> ExpectedRow(ChannelMsgs(n)[k])]

\* row r of a delivered batch, read back from its columns
ReadRow(batch, r) ==
    <<batch.columns[1].vals[r], batch.columns[2].vals[r],
      VStruct(<<IF batch.columns[3].valid[r] THEN VI64(batch.columns[3].vals[r]) ELSE VNull>>)>>
BatchRows(batch) == [r \in 1..batch.num_rows |-> ReadRow(batch, r)]

RECURSIVE DeliveredRowsFrom(_)
DeliveredRowsFrom(i) ==
    IF i > Len(delivered) THEN <<>>
    ELSE BatchRows(delivered[i].batch) \o DeliveredRowsFrom(i + 1)
DeliveredRows == DeliveredRowsFrom(1)

BufferedRows == [k \in 1..Len(rows) |-> <<rows[k].log_time, rows[k].publish_time, rows[k].value>>]

CeilDiv(n, b) == (n + b - 1) \div b

\* C1: with batch_size B >= 1, N messages of the channel that all decode and a
\* callback that never fails, the call returns Ok after exactly ceil(N/B)
\* invocations; every invocation but the last gets B rows, the last gets 1..B
\* rows, and no invocation of any run gets a batch of zero rows.
C1_BatchCounts ==
    /\ \A i \in 1..Len(delivered) : delivered[i].batch.num_rows >= 1
    /\ (pc = "done" /\ context # NoContext /\ batch_size >= 1 /\ fail_at = 0
          /\ StreamReadable /\ AllDecode)
         => LET N == Len(ChannelMsgs(Len(file.stream)))
                n == Len(delivered)
            IN  /\ result = "Ok"
                /\ n = CeilDiv(N, batch_size)
                /\ \A i \in 1..(n - 1) : delivered[i].batch.num_rows = batch_size
                /\ n > 0 => delivered[n].batch.num_rows \in 1..batch_size

C1_Witness ==
    /\ pc = "done" /\ result = "Ok" /\ batch_size = 2 /\ fail_at = 0
    /\ Len(delivered) = 2
    /\ delivered[1].batch.num_rows = 2
    /\ delivered[2].batch.num_rows = 1

\* C2: the rows handed to the callback so far, followed by the rows still in
\* the buffer, are the messages of the channel read so far, in stream order
\* and each once, with their own log_time, publish_time and decoded value; a
\* run that returns Ok has delivered every message of the channel.
C2_RowOrder ==
    /\ (Running /\ result \in {"none", "Ok", "Callback"})
         => DeliveredRows \o BufferedRows = ExpectedRows(pos)
    /\ result = "Ok" => /\ rows = <<>>
                        /\ pos = Len(file.stream)
                        /\ DeliveredRows = ExpectedRows(Len(file.stream))

C2_Witness ==
    /\ result = "Ok"
    /\ Len(delivered) = 2
    /\ Len(file.stream) = 3
    /\ file.stream[2].channel_id # context.channel_id

\* C3: when an invocation of the callback fails the call returns Callback at
\* once: that invocation is the last one, no message after the one that
\* filled the batch is read or decoded, and the buffer does not keep the rows
\* of the failed batch (no row is handed over twice).
C3_CallbackError ==
    /\ (fail_at >= 1 /\ Len(delivered) >= fail_at)
         => (pc = "done" /\ result = "Callback" /\ Len(delivered) = fail_at)
    /\ result = "Callback"
         => /\ pc = "done"
            /\ Len(delivered) = fail_at
            /\ rows = <<>>
            /\ Len(decode_log) = Len(ChannelMsgs(pos))
            /\ \A i \in 1..Len(decode_log) : decode_log[i].msg <= pos
            /\ DeliveredRows = ExpectedRows(pos)

C3_Witness ==
    /\ result = "Callback"
    /\ fail_at = 2
    /\ Len(delivered) = 2
    /\ pos < Len(file.stream)
    /\ file.stream[pos + 1].channel_id = context.channel_id

\* C4: when a message of the channel does not decode, the call returns
\* MessageDecodeFailed and stops: the failing message adds no row, it is the
\* last message decoded, and the step that fails neither invokes the callback
\* nor flushes the buffer, so the rows buffered before it are never delivered.
C4_DecodeFailure ==
    /\ (\E i \in 1..Len(decode_log) : ~decode_log[i].ok)
         => (pc = "done" /\ result = "MessageDecodeFailed")
    /\ result = "MessageDecodeFailed"
         => /\ pc = "done"
            /\ decode_log # <<>>
            /\ ~decode_log[Len(decode_log)].ok
            /\ decode_log[Len(decode_log)].msg = pos
            /\ \A i \in 1..(Len(decode_log) - 1) : decode_log[i].ok
            /\ DeliveredRows \o BufferedRows = ExpectedRows(pos - 1)
            /\ \A k \in 1..Len(rows) : rows[k].value # VNull /\ rows[k].value.c[1] # VNull
            /\ batch_size >= 1 => Len(delivered) = Len(ChannelMsgs(pos - 1)) \div batch_size
            /\ batch_size >= 1 => Len(rows) = Len(ChannelMsgs(pos - 1)) % batch_size

C4_Witness ==
    /\ result = "MessageDecodeFailed"
    /\ rows # <<>>
    /\ pos < Len(file.stream)
    /\ file.stream[pos + 1].channel_id = context.channel_id

\* C5: a call whose topic cannot be set up fails before any message is read
\* and without invoking the callback: TopicNotFound when no channel of the
\* summary has the topic, MultipleChannels when several have, SchemaNotAvailable
\* when the one channel has no schema, NoDecoder when no factory is registered
\* under the channel's (schema encoding, message encoding).
TopicChannels == {ch \in Channels : ch.topic = topic}
TheChannel == CHOOSE ch \in TopicChannels : TRUE
ChannelKey(ch) ==
    EncodingKey(SchemaEncodingFrom(ch.schema.encoding), MessageEncodingFrom(ch.message_encoding))
Untouched == pos = 0 /\ decode_log = <<>> /\ delivered = <<>> /\ rows = <<>>

C6_BuildOnce ==
    /\ builds <= 1
    /\ decode_log # <<>> => builds = 1
    /\ Running
         => /\ builds = 1
            /\ context.decoder.serial = 1
            /\ \A i \in 1..Len(decode_log) : decode_log[i].decoder = context.decoder
            /\ StreamReadable => Len(decode_log) = Len(ChannelMsgs(pos))

C6_Witness ==
    /\ pc = "done"
    /\ builds = 1
    /\ Len(decode_log) = 3

\* C7: the registry holds at most one factory per EncodingKey, the factory
\* found under a key is the one registered last under it (by register_decoder,
\* register_shared_decoder, or with_decoder calls followed by build), and a
\* registration leaves the entries of every other key as they were.
RECURSIVE LastRegistered(_, _)
\* the factory registered last under key among the first n registrations
LastRegistered(key, n) ==
    IF n = 0 THEN NoFactory
    ELSE IF FactoryById(reg_log[n]).key = key THEN reg_log[n]
    ELSE LastRegistered(key, n - 1)

Keys == {f.key : f \in Factories}
Lookup(ds, key) == {e.f : e \in {x \in ds : x.key = key}}

C7_RegistryInv ==
    pc \in {"builder", "reader"} =>
        /\ \A e1 \in decoders, e2 \in decoders : e1.key = e2.key => e1 = e2
        /\ \A key \in Keys :
              /\ find_decoder(decoders, key.schema_encoding, key.message_encoding).f
                    = LastRegistered(key, Len(reg_log))
              /\ Lookup(decoders, key) =
                    IF LastRegistered(key, Len(reg_log)) = NoFactory THEN {}
                    ELSE {LastRegistered(key, Len(reg_log))}

C7_Frame ==
    (pc = "reader" /\ pc' = "reader" /\ reg_log' # reg_log)
        => \A key \in Keys :
              key # FactoryById(reg_log'[Len(reg_log')]).key
                  => Lookup(decoders', key) = Lookup(decoders, key)

C7_Registry == []C7_RegistryInv /\ [][C7_Frame]_vars

C7_Witness ==
    /\ pc = "reader"
    /\ reg_log = <<1, 2>>
    /\ decoders = {[key |-> JsonKey, f |-> 2]}

\* ---- the flatten pass on its own -------------------------------------------
InitFlatten ==
    /\ InitA
    /\ InitR
    /\ pc = "off"
    /\ InitY
    /\ InitD
    /\ InitT
    /\ InitP
    /\ f_batch \in {FlatBatches[i] : i \in 1..Len(FlatBatches)}
    /\ f_sep \in Separators
    /\ f_policy \in Policies
    /\ f_out = NoFlat
    /\ f_again = NoFlat
    /\ f_pc = "call"

\* flatten_record_batch(&batch, separator, &policy)
Flatten ==
    /\ f_pc = "call"
    /\ f_out' = flatten_record_batch(f_batch, f_sep, f_policy)
    /\ f_pc' = "done"
    /\ UNCHANGED <<f_batch, f_sep, f_policy, f_again, basevars, yvars, dvars, tvars, pvars>>

\* the pass applied to the batch it returned
FlattenAgain ==
    /\ f_pc = "done"
    /\ f_out.ok
    /\ f_again' = flatten_record_batch(f_out.batch, f_sep, f_policy)
    /\ f_pc' = "again"
    /\ UNCHANGED <<f_batch, f_sep, f_policy, f_out, basevars, yvars, dvars, tvars, pvars>>

NextFlatten == Flatten \/ FlattenAgain

SpecFlatten == InitFlatten /\ [][NextFlatten]_vars

\* ---- the CDR decoder on its own ----------------------------------------------
InitCdr ==
    /\ InitA
    /\ InitR
    /\ pc = "off"
    /\ InitY
    /\ InitF
    /\ InitT
    /\ InitP
    /\ d_len \in 0..MaxBuf
    /\ \E fields \in CdrSchemas : d_todo = with_paths(fields)
    /\ d_pos = 0
    /\ d_base = 0
    /\ d_log = <<>>
    /\ d_err = ""
    /\ d_short = NoShort
    /\ d_strs = <<>>
    /\ d_pc = "header"

\* the decoder returns Err(msg), standing at offset; short names the read
\* that ran out of input, if one did
CdrFail(msg, offset, short) ==
    /\ d_err' = msg
    /\ d_pos' = offset
    /\ d_short' = short
    /\ d_pc' = "done"

\* Decoder::read_encapsulation
ReadEncapsulation ==
    /\ d_pc = "header"
    /\ IF d_len - d_pos < 4
       THEN CdrFail("incomplete encapsulation header", d_pos, Short("header", ""))
            /\ UNCHANGED d_base
       ELSE \E little_endian \in BOOLEAN :
               IF little_endian
               THEN d_pos' = 4 /\ d_base' = 4 /\ d_pc' = "fields" /\ UNCHANGED <<d_err, d_short>>
               ELSE CdrFail("unsupported CDR endianness", 4, NoShort) /\ UNCHANGED d_base
    /\ UNCHANGED <<d_len, d_todo, d_log, d_strs, basevars, yvars, fvars, tvars, pvars>>

\* one decode_string call: the length prefix was read at `at`; nul says the
\* last stored byte is 0, utf8 that the bytes before it are valid UTF-8; out
\* is the length of the String returned, NoMax for Err
StringRead(path, at, len, nul, utf8, out) ==
    [path |-> path, at |-> at, len |-> len, nul |-> nul, utf8 |-> utf8, out |-> out]

StringBodyBug(r, ty, len) ==
    IF len = 0
    THEN /\ d_pos' = r.pos /\ d_pc' = "fields" /\ UNCHANGED <<d_err, d_short>>
         /\ d_strs' = Append(d_strs, StringRead(ty.path, r.pos - 4, 0, FALSE, TRUE, 0))
    ELSE IF d_len - r.pos < len
    THEN /\ CdrFail("unexpected EOF at " \o ty.path, r.pos, Short("bytes", ty.path))
         /\ UNCHANGED d_strs
    ELSE \E nul \in BOOLEAN, utf8 \in BOOLEAN :
            IF ~utf8
            THEN /\ CdrFail("invalid UTF-8 at " \o ty.path, r.pos + len, NoShort)
                 /\ d_strs' = Append(d_strs, StringRead(ty.path, r.pos - 4, len, nul, utf8, NoMax))
            ELSE IF ty.max # NoMax /\ len - 1 > ty.max
            THEN /\ CdrFail("bounded string overflow at " \o ty.path \o ": "
                                \o ToString(len - 1) \o " > " \o ToString(ty.max),
                            r.pos + len, NoShort)
                 /\ d_strs' = Append(d_strs, StringRead(ty.path, r.pos - 4, len, nul, utf8, NoMax))
            ELSE /\ d_pos' = r.pos + len /\ d_pc' = "fields" /\ UNCHANGED <<d_err, d_short>>
                 /\ d_strs' = Append(d_strs, StringRead(ty.path, r.pos - 4, len, nul, utf8, len - 1))

\* Decoder::decode_string after its length prefix was read: len bytes, the
\* last of them the terminator; then the bound of a BoundedString
StringBody(r, ty, len) ==
    IF len = 0
    THEN /\ d_pos' = r.pos /\ d_pc' = "fields" /\ UNCHANGED <<d_err, d_short>>
         /\ d_strs' = Append(d_strs, StringRead(ty.path, r.pos - 4, 0, FALSE, TRUE, 0))
    ELSE IF d_len - r.pos < len
    THEN /\ CdrFail("unexpected EOF at " \o ty.path, r.pos, Short("bytes", ty.path))
         /\ UNCHANGED d_strs
    ELSE \E nul \in BOOLEAN, utf8 \in BOOLEAN :
            IF ~nul
            THEN /\ CdrFail("string missing null terminator at " \o ty.path, r.pos + len, NoShort)
                 /\ d_strs' = Append(d_strs, StringRead(ty.path, r.pos - 4, len, nul, utf8, NoMax))
            ELSE IF ~utf8
            THEN /\ CdrFail("invalid UTF-8 at " \o ty.path, r.pos + len, NoShort)
                 /\ d_strs' = Append(d_strs, StringRead(ty.path, r.pos - 4, len, nul, utf8, NoMax))
            ELSE IF ty.max # NoMax /\ len - 1 > ty.max
            THEN /\ CdrFail("bounded string overflow at " \o ty.path \o ": "
                                \o ToString(len - 1) \o " > " \o ToString(ty.max),
                            r.pos + len, NoShort)
                 /\ d_strs' = Append(d_strs, StringRead(ty.path, r.pos - 4, len, nul, utf8, NoMax))
            ELSE /\ d_pos' = r.pos + len /\ d_pc' = "fields" /\ UNCHANGED <<d_err, d_short>>
                 /\ d_strs' = Append(d_strs, StringRead(ty.path, r.pos - 4, len, nul, utf8, len - 1))

\* Decoder::decode_type for the next type of the message
DecodeType ==
    /\ d_pc = "fields"
    /\ d_todo # <<>>
    /\ LET ty == Head(d_todo) IN
       IF ty.k = "Primitive" /\ ty.p = "WString"
       THEN /\ CdrFail("wstring not supported at " \o ty.path, d_pos, NoShort)
            /\ UNCHANGED <<d_todo, d_log, d_strs>>
       ELSE IF ty.k = "BoundedString" \/ (ty.k = "Primitive" /\ ty.p = "String")
       THEN LET r == aligned_read(d_pos, d_base, d_len, d_log, 4, 4) IN
            /\ d_log' = r.log
            /\ d_todo' = Tail(d_todo)
            /\ IF r.err # ""
               THEN /\ CdrFail(read_error(r, ty.path), r.pos,
                               Short(IF r.short = "read" THEN "length" ELSE r.short, ty.path))
                    /\ UNCHANGED d_strs
               ELSE \E len \in 0..MaxSeq : StringBody(r, ty, len)
       ELSE IF ty.k = "Sequence"
       THEN LET r == aligned_read(d_pos, d_base, d_len, d_log, 4, 4) IN
            /\ d_log' = r.log
            /\ UNCHANGED d_strs
            /\ IF r.err # ""
               THEN /\ CdrFail(read_error(r, ty.path), r.pos,
                               Short(IF r.short = "read" THEN "length" ELSE r.short, ty.path))
                    /\ d_todo' = Tail(d_todo)
               ELSE \E len \in 0..MaxSeq :
                       IF ty.max # NoMax /\ len > ty.max
                       THEN /\ CdrFail("sequence bound overflow at " \o ty.path \o ": "
                                           \o ToString(len) \o " > " \o ToString(ty.max),
                                       r.pos, NoShort)
                            /\ d_todo' = Tail(d_todo)
                       ELSE /\ d_pos' = r.pos
                            /\ d_todo' = elements(ty, len) \o Tail(d_todo)
                            /\ UNCHANGED <<d_err, d_short, d_pc>>
       ELSE LET n == IF ty.k = "Enum" THEN 4 ELSE primitive_align_size(ty.p)
                size == IF ty.k = "Enum" THEN 4 ELSE primitive_size(ty.p)
                r == aligned_read(d_pos, d_base, d_len, d_log, n, size) IN
            /\ d_log' = r.log
            /\ d_todo' = Tail(d_todo)
            /\ UNCHANGED d_strs
            /\ IF r.err # ""
               THEN CdrFail(read_error(r, ty.path), r.pos,
                            Short(IF r.short = "read" THEN "primitive" ELSE r.short, ty.path))
               ELSE d_pos' = r.pos /\ UNCHANGED <<d_err, d_short, d_pc>>
    /\ UNCHANGED <<d_len, d_base, basevars, yvars, fvars, tvars, pvars>>

\* decode_struct returns Ok(Value::Struct(fields))
DecodeEnd ==
    /\ d_pc = "fields"
    /\ d_todo = <<>>
    /\ d_pc' = "done"
    /\ UNCHANGED <<d_len, d_pos, d_base, d_todo, d_log, d_err, d_short, d_strs, basevars, yvars, fvars,
                   tvars, pvars>>

NextCdr == ReadEncapsulation \/ DecodeType \/ DecodeEnd

SpecCdr == InitCdr /\ [][NextCdr]_vars

\* ---- the type resolver on its own ---------------------------------------------
InitResolve ==
    /\ InitA
    /\ InitR
    /\ pc = "off"
    /\ InitY
    /\ InitF
    /\ InitD
    /\ InitP
    /\ t_def \in StructDefs
    /\ \E s \in SUBSET StructKeys : t_structs = ensure_builtin_structs(s \cup {t_def.full_name})
    /\ t_enums \in SUBSET EnumKeys
    /\ t_out = <<>>
    /\ t_err = FALSE
    /\ t_pc = "fields"

\* resolve_struct: the next field of def.fields
ResolveField ==
    /\ t_pc = "fields"
    /\ Len(t_out) < Len(t_def.fields)
    /\ LET ty == resolve_type_expr(t_def.fields[Len(t_out) + 1], t_def.full_name,
                                   t_structs, t_enums)
       IN  IF ty.k = "Err"
           THEN t_err' = TRUE /\ t_pc' = "done" /\ UNCHANGED t_out
           ELSE t_out' = Append(t_out, ty) /\ UNCHANGED <<t_err, t_pc>>
    /\ UNCHANGED <<t_structs, t_enums, t_def, basevars, yvars, fvars, dvars, pvars>>

\* resolve_struct: Ok(ResolvedStruct { fields })
ResolveEnd ==
    /\ t_pc = "fields"
    /\ Len(t_out) = Len(t_def.fields)
    /\ t_pc' = "done"
    /\ UNCHANGED <<t_structs, t_enums, t_def, t_out, t_err, basevars, yvars, fvars, dvars, pvars>>

NextResolve == ResolveField \/ ResolveEnd

SpecResolve == InitResolve /\ [][NextResolve]_vars

\* ---- the protobuf decoder on its own ------------------------------------------
InitProto ==
    /\ InitA
    /\ InitR
    /\ pc = "off"
    /\ InitY
    /\ InitF
    /\ InitD
    /\ InitT
    /\ p_desc \in MessageDescriptors
    /\ p_msg \in DynamicMessages(p_desc)
    /\ p_policy \in {"PresenceAware", "AlwaysDefault"}
    /\ p_value = NoValue
    /\ p_schema = NoFieldDefs
    /\ p_pc = "call"

\* derive_schema_with_policy: message_fields_to_field_defs of the root
DeriveSchema ==
    /\ p_pc = "call"
    /\ p_schema' = message_fields_to_field_defs(p_desc, p_policy)
    /\ p_pc' = "schema"
    /\ UNCHANGED <<p_desc, p_msg, p_policy, p_value, basevars, yvars, fvars, dvars, tvars>>

\* decode_from_descriptor: message_to_value of the root
DecodeMessage ==
    /\ p_pc = "schema"
    /\ p_value' = message_to_value(p_msg, p_desc, p_policy)
    /\ p_pc' = "done"
    /\ UNCHANGED <<p_desc, p_msg, p_policy, p_schema, basevars, yvars, fvars, dvars, tvars>>

NextProto == DeriveSchema \/ DecodeMessage

SpecProto == InitProto /\ [][NextProto]_vars

\* ---- resolve_parsed_section and Ros2CdrTopicDecoder::new -----------------------
InitSection ==
    /\ InitA
    /\ InitR
    /\ pc = "off"
    /\ InitF
    /\ InitD
    /\ InitT
    /\ InitP
    /\ InitZ
    /\ \E defs \in SUBSET SectionStructs : s_defs = structs_map(defs)
    /\ s_enums \in SUBSET SectionEnums
    /\ s_root \in SectionRoots
    /\ s_out = <<>>
    /\ s_res = "none"
    /\ s_stack = <<>>
    /\ s_pc = "structs"

\* resolve_parsed_section: one turn of the loop over parsed.structs, which
\* a HashMap gives in any order
ResolveStruct ==
    /\ s_pc = "structs"
    /\ \E name \in DOMAIN s_defs \ DOMAIN s_out :
          LET resolved == resolve_struct(s_defs[name], DOMAIN s_defs, s_enums) IN
          IF resolved.err
          THEN s_res' = "Err" /\ s_pc' = "failed" /\ UNCHANGED s_out
          ELSE /\ s_out' = [key \in DOMAIN s_out \cup {name} |->
                               IF key = name THEN resolved.fields ELSE s_out[key]]
               /\ UNCHANGED <<s_res, s_pc>>
    /\ UNCHANGED <<s_defs, s_enums, s_root, s_stack, basevars, fvars, dvars, tvars, pvars,
                   zvars>>

\* resolve_parsed_section after the loop: the root must be a key of out
CheckRoot ==
    /\ s_pc = "structs"
    /\ DOMAIN s_out = DOMAIN s_defs
    /\ IF s_root \in DOMAIN s_out
       THEN s_res' = "Ok" /\ s_pc' = "resolved"
       ELSE s_res' = "Err" /\ s_pc' = "failed"
    /\ UNCHANGED <<s_defs, s_enums, s_root, s_out, s_stack, basevars, fvars, dvars, tvars, pvars,
                   zvars>>

\* Ros2CdrTopicDecoder::new: resolved_schema_to_field_defs enters the root
NewDecoder ==
    /\ s_pc = "resolved"
    /\ s_stack' = <<Frame(s_root, 1)>>
    /\ s_pc' = "derive"
    /\ UNCHANGED <<s_defs, s_enums, s_root, s_out, s_res, basevars, fvars, dvars, tvars, pvars,
                   zvars>>

\* resolved_struct_to_field_defs: the next field of the innermost call; a
\* field of a struct type (or a sequence of one) enters that struct, the
\* end of the fields returns to the caller.  A call stack of MaxDepth
\* frames is full.
DeriveField ==
    /\ s_pc = "derive"
    /\ LET n == Len(s_stack)
           top == s_stack[n]
           fields == s_out[top.key]
       IN  IF top.i > Len(fields)
           THEN /\ s_stack' = SubSeq(s_stack, 1, n - 1)
                /\ s_pc' = IF n = 1 THEN "derived" ELSE "derive"
           ELSE LET next == struct_of(fields[top.i])
                    here == [s_stack EXCEPT ![n] = Frame(top.key, top.i + 1)]
                IN  IF next = <<>>
                    THEN s_stack' = here /\ UNCHANGED s_pc
                    ELSE IF next \notin DOMAIN s_out
                    THEN s_pc' = "panic" /\ UNCHANGED s_stack
                    ELSE IF n = MaxDepth
                    THEN s_pc' = "overflow" /\ UNCHANGED s_stack
                    ELSE s_stack' = Append(here, Frame(next, 1)) /\ UNCHANGED s_pc
    /\ UNCHANGED <<s_defs, s_enums, s_root, s_out, s_res, basevars, fvars, dvars, tvars, pvars,
                   zvars>>

NextSection == ResolveStruct \/ CheckRoot \/ NewDecoder \/ DeriveField

SpecSection == InitSection /\ [][NextSection]_vars

\* every call that can go on does
SpecSectionLive == SpecSection /\ WF_vars(NextSection)

\* ---- the IDL line parser on its own ---------------------------------------
InitIdl ==
    /\ InitA
    /\ InitR
    /\ pc = "off"
    /\ InitF
    /\ InitD
    /\ InitT
    /\ InitP
    /\ InitS
    /\ InitK
    /\ i_lines = <<>>
    /\ i_st = ParserStart
    /\ i_res = "none"
    /\ i_pc = "lines"

\* one iteration of the loop over the lines of the section
ParseLine ==
    /\ i_pc = "lines"
    /\ Len(i_lines) < MaxLines
    /\ \E line \in IdlLines :
          LET st == parse_line(i_st, line, Len(i_lines) + 1) IN
          /\ i_lines' = Append(i_lines, line)
          /\ i_st' = st
          /\ IF st.err # ""
             THEN i_res' = st.err /\ i_pc' = "done"
             ELSE UNCHANGED <<i_res, i_pc>>
    /\ UNCHANGED <<basevars, fvars, dvars, tvars, pvars, svars, kvars>>

\* the section has no more lines
EndOfInput ==
    /\ i_pc = "lines"
    /\ i_res' = end_of_input(i_st)
    /\ i_pc' = "done"
    /\ UNCHANGED <<i_lines, i_st, basevars, fvars, dvars, tvars, pvars, svars, kvars>>

NextIdl == ParseLine \/ EndOfInput

SpecIdl == InitIdl /\ [][NextIdl]_vars

\* ---- decode calls on one TopicDecoder -------------------------------------------
InitDecoder ==
    /\ InitA
    /\ InitR
    /\ pc = "off"
    /\ InitF
    /\ InitD
    /\ InitT
    /\ InitP
    /\ InitS
    /\ InitI
    /\ k_built \in TopicDecoders
    /\ k_dec = k_built
    /\ k_calls = <<>>

\* decoder.decode(&message_data)
Decode ==
    /\ k_dec.kind # "none"
    /\ Len(k_calls) < MaxCalls
    /\ \E data \in PayloadsOf(k_dec) :
          LET r == decode(k_dec, data) IN
          /\ k_dec' = r.self
          /\ k_calls' = Append(k_calls, [data |-> data, result |-> r.result])
    /\ UNCHANGED <<k_built, basevars, fvars, dvars, tvars, pvars, svars, ivars>>

NextDecoder == Decode

SpecDecoder == InitDecoder /\ [][NextDecoder]_vars

\* ------------------------------------------------------------------------
\* Properties of the row appender
\* ------------------------------------------------------------------------
Built == a_pc = "done" /\ ~a_out.panic

RECURSIVE CellAt(_, _)
\* the logical value an array holds at row r
CellAt(arr, r) ==
    IF ~arr.valid[r] THEN VNull
    ELSE IF arr.t = "List"
    THEN VList([j \in 1..(arr.offs[r] - RowStart(arr, r)) |->
                    CellAt(arr.ch[1], RowStart(arr, r) + j)])
    ELSE IF arr.t = "FixedSizeList"
    THEN VArray([j \in 1..arr.size |-> CellAt(arr.ch[1], (r - 1) * arr.size + j)])
    ELSE IF arr.t = "Struct"
    THEN VStruct([i \in 1..Len(arr.ch) |-> CellAt(arr.ch[i], r)])
    ELSE IF arr.t = "Map"
    THEN VMap([j \in 1..(arr.offs[r] - RowStart(arr, r)) |->
                   <<CellAt(arr.ch[1], RowStart(arr, r) + j),
                     CellAt(arr.ch[2], RowStart(arr, r) + j)>>])
    ELSE [k |-> ScalarVariant(arr.t), v |-> arr.vals[r], c |-> <<>>]

NonNullRows == SelectSeq(a_rows, LAMBDA m : m.value.k # "Null")
\* position of row r among the rows whose root is not Null
NonNullIndex(r) == Cardinality({q \in 1..r : a_rows[q].value.k # "Null"})

\* C8: in the batch the row appender builds, a row whose root is Value::Null
\* is null in every body column (in a fixed-size-list column the `size` child
\* slots of the row are null too), @log_time and @publish_time hold the times
\* of each row, and the other rows hold what they hold in the batch built
\* without the Null-root rows.
C8_NullRoot ==
    Built =>
        LET b == a_out.batch
            n == Len(a_rows)
            other == arrow_value_rows_to_record_batch(a_schema, NonNullRows)
        IN  /\ b.num_rows = n
            /\ \A r \in 1..n :
                  /\ b.columns[1].valid[r] /\ b.columns[1].vals[r] = a_rows[r].log_time
                  /\ b.columns[2].valid[r] /\ b.columns[2].vals[r] = a_rows[r].publish_time
            /\ \A r \in 1..n : a_rows[r].value.k = "Null" =>
                  \A i \in 1..Len(a_schema) :
                      LET col == b.columns[i + 2]
                      IN  /\ ~col.valid[r]
                          /\ CellAt(col, r) = VNull
                          /\ col.t = "FixedSizeList" =>
                                \A j \in 1..col.size : ~col.ch[1].valid[(r - 1) * col.size + j]
            /\ NonNullRows # <<>> =>
                  /\ ~other.panic
                  /\ \A r \in 1..n : a_rows[r].value.k # "Null" =>
                        \A i \in 1..Len(a_schema) :
                            CellAt(b.columns[i + 2], r)
                                = CellAt(other.batch.columns[i + 2], NonNullIndex(r))

C8_Witness ==
    /\ Built
    /\ Len(a_schema) = 2
    /\ Len(a_rows) = 2
    /\ a_rows[1].value = VNull
    /\ a_rows[2].value = VStruct(<<VI32(1), VArray(<<VI32(1), VI32(1)>>)>>)
    /\ a_out.batch.columns[4].ch[1].len = 4

RECURSIVE HasBadArray(_, _)
\* value holds, at a fixed-size-list position of dt, an Array of another length
HasBadArray(dt, value) ==
    IF dt.t = "FixedSizeList" /\ value.k = "Array"
    THEN \/ Len(value.c) # dt.size
         \/ \E j \in 1..Len(value.c) : HasBadArray(dt.fields[1].dt, value.c[j])
    ELSE IF dt.t = "List" /\ value.k = "List"
    THEN \E j \in 1..Len(value.c) : HasBadArray(dt.fields[1].dt, value.c[j])
    ELSE IF dt.t = "Struct" /\ value.k = "Struct"
    THEN \E i \in 1..Len(dt.fields) : i <= Len(value.c) /\ HasBadArray(dt.fields[i].dt, value.c[i])
    ELSE IF dt.t = "Map" /\ value.k = "Map"
    THEN \E j \in 1..Len(value.c) : \/ HasBadArray(dt.fields[1].dt, value.c[j][1])
                                    \/ HasBadArray(dt.fields[2].dt, value.c[j][2])
    ELSE FALSE

\* the value of column i in row r (a root that is no Struct has none)
ColumnValue(r, i) ==
    IF a_rows[r].value.k \in {"Struct", "Null"} THEN extract_field(a_rows[r].value, i) ELSE VNull

RECURSIVE NullWhereNonNullable(_, _)
\* value holds a Null at a position of field f whose schema node is not nullable
\* (a struct child the value leaves out is appended as Null)
NullWhereNonNullable(f, value) ==
    IF value.k = "Null" THEN ~f.nullable
    ELSE IF f.dt.t \in {"List", "FixedSizeList"} /\ value.k \in {"List", "Array"}
    THEN \E j \in 1..Len(value.c) : NullWhereNonNullable(f.dt.fields[1], value.c[j])
    ELSE IF f.dt.t = "Struct" /\ value.k = "Struct"
    THEN \E i \in 1..Len(f.dt.fields) :
            NullWhereNonNullable(f.dt.fields[i], IF i <= Len(value.c) THEN value.c[i] ELSE VNull)
    ELSE IF f.dt.t = "Map" /\ value.k = "Map"
    THEN \E j \in 1..Len(value.c) : \/ NullWhereNonNullable(f.dt.fields[1], value.c[j][1])
                                    \/ NullWhereNonNullable(f.dt.fields[2], value.c[j][2])
    ELSE FALSE

RECURSIVE StructCountsMatch(_, _)
\* every Struct of value has as many children as its schema node has fields
StructCountsMatch(dt, value) ==
    IF dt.t = "Struct" /\ value.k = "Struct"
    THEN /\ Len(value.c) = Len(dt.fields)
         /\ \A i \in 1..Len(dt.fields) : StructCountsMatch(dt.fields[i].dt, value.c[i])
    ELSE IF dt.t \in {"List", "FixedSizeList"} /\ value.k \in {"List", "Array"}
    THEN \A j \in 1..Len(value.c) : StructCountsMatch(dt.fields[1].dt, value.c[j])
    ELSE IF dt.t = "Map" /\ value.k = "Map"
    THEN \A j \in 1..Len(value.c) : /\ StructCountsMatch(dt.fields[1].dt, value.c[j][1])
                                    /\ StructCountsMatch(dt.fields[2].dt, value.c[j][2])
    ELSE TRUE

\* the body schema as the Struct node the row roots are matched against
RootType == DStruct(a_schema)

RECURSIVE Appendable(_, _)
\* value fits field f when a Struct is read position by position, a position
\* the Struct leaves out counting as Null and children past the last field
\* not being looked at
Appendable(f, value) ==
    IF value.k = "Null" THEN f.nullable /\ Supported(f.dt)
    ELSE IF f.dt.t = "List"
    THEN /\ value.k = "List"
         /\ \A j \in 1..Len(value.c) : Appendable(f.dt.fields[1], value.c[j])
    ELSE IF f.dt.t = "FixedSizeList"
    THEN /\ value.k = "Array"
         /\ Len(value.c) = f.dt.size
         /\ \A j \in 1..Len(value.c) : Appendable(f.dt.fields[1], value.c[j])
    ELSE IF f.dt.t = "Struct"
    THEN /\ value.k = "Struct"
         /\ \A i \in 1..Len(f.dt.fields) :
               Appendable(f.dt.fields[i], IF i <= Len(value.c) THEN value.c[i] ELSE VNull)
    ELSE IF f.dt.t = "Map"
    THEN /\ value.k = "Map"
         /\ \A j \in 1..Len(value.c) : /\ Appendable(f.dt.fields[1], value.c[j][1])
                                       /\ Appendable(f.dt.fields[2], value.c[j][2])
    ELSE f.dt.t \in ScalarTypes /\ value.k = ScalarVariant(f.dt.t)

RECURSIVE Stored(_, _)
\* what a built batch holds for value: Null at the positions a Struct leaves
\* out, nothing for the children past the last field
Stored(dt, value) ==
    IF value.k = "Null" THEN VNull
    ELSE IF dt.t = "Struct"
    THEN VStruct([i \in 1..Len(dt.fields) |->
                     Stored(dt.fields[i].dt, IF i <= Len(value.c) THEN value.c[i] ELSE VNull)])
    ELSE IF dt.t = "List"
    THEN VList([j \in 1..Len(value.c) |-> Stored(dt.fields[1].dt, value.c[j])])
    ELSE IF dt.t = "FixedSizeList"
    THEN VArray([j \in 1..Len(value.c) |-> Stored(dt.fields[1].dt, value.c[j])])
    ELSE IF dt.t = "Map"
    THEN VMap([j \in 1..Len(value.c) |-> <<Stored(dt.fields[1].dt, value.c[j][1]),
                                           Stored(dt.fields[2].dt, value.c[j][2])>>])
    ELSE value

TimesFit == \A r \in 1..Len(a_rows) :
                a_rows[r].log_time <= I64Max /\ a_rows[r].publish_time <= I64Max

\* the value the root of row r gives to body field i
RootChild(r, i) ==
    IF a_rows[r].value.k = "Struct" /\ i <= Len(a_rows[r].value.c)
    THEN a_rows[r].value.c[i] ELSE VNull

RECURSIVE HasScalarMismatch(_, _)
\* value holds, at a scalar position of dt, a non-Null scalar of another
\* variant than the one the column type reads
HasScalarMismatch(dt, value) ==
    IF dt.t \in ScalarTypes \ {"Null"}
    THEN value.k # "Null" /\ value.k # ScalarVariant(dt.t)
    ELSE IF dt.t \in {"List", "FixedSizeList"} /\ value.k \in {"List", "Array"}
    THEN \E j \in 1..Len(value.c) : HasScalarMismatch(dt.fields[1].dt, value.c[j])
    ELSE IF dt.t = "Struct" /\ value.k = "Struct"
    THEN \E i \in 1..Len(dt.fields) :
            i <= Len(value.c) /\ HasScalarMismatch(dt.fields[i].dt, value.c[i])
    ELSE IF dt.t = "Map" /\ value.k = "Map"
    THEN \E j \in 1..Len(value.c) : \/ HasScalarMismatch(dt.fields[1].dt, value.c[j][1])
                                    \/ HasScalarMismatch(dt.fields[2].dt, value.c[j][2])
    ELSE FALSE

Flattened == f_pc \in {"done", "again"}

\* the separator in force
Sep == IF f_sep = NoSeparator THEN "." ELSE f_sep

Names(batch) == [i \in 1..Len(batch.fields) |-> batch.fields[i].name]

Distinct(s) == \A i \in 1..Len(s) : \A j \in 1..Len(s) : s[i] = s[j] => i = j

RECURSIVE Concat(_)
Concat(ss) == IF ss = <<>> THEN <<>> ELSE Head(ss) \o Concat(Tail(ss))

RECURSIVE OutputPaths(_, _)
\* the final paths of the columns that the column of type dt at path p
\* becomes under f_policy, in output order
OutputPaths(dt, p) ==
    IF dt.t = "Struct"
    THEN IF f_policy.struct_ = "Keep" THEN <<p>>
         ELSE Concat([i \in 1..Len(dt.fields) |->
                         OutputPaths(dt.fields[i].dt, p \o Sep \o dt.fields[i].name)])
    ELSE IF dt.t = "List"
    THEN IF f_policy.list = "Keep" THEN <<p>>
         ELSE IF f_policy.list = "Drop" THEN <<>>
         ELSE Concat([i \in 1..f_policy.list_flatten_fixed_size |->
                         OutputPaths(dt.fields[1].dt, p \o Sep \o ToString(i - 1))])
    ELSE IF dt.t = "FixedSizeList"
    THEN IF f_policy.array = "Keep" THEN <<p>>
         ELSE IF f_policy.array = "Drop" THEN <<>>
         ELSE Concat([i \in 1..dt.size |->
                         OutputPaths(dt.fields[1].dt, p \o Sep \o ToString(i - 1))])
    ELSE IF dt.t = "Map"
    THEN IF f_policy.map = "Keep" THEN <<p>> ELSE <<>>
    ELSE <<p>>

BatchPaths ==
    Concat([i \in 1..Len(f_batch.fields) |->
               OutputPaths(f_batch.fields[i].dt, f_batch.fields[i].name)])

Collision(p) == "flattening column name collision: '" \o p \o "'"

\* C13: flatten_record_batch returns a batch whose column names are pairwise
\* distinct, or fails with InvalidArgument; when two of the final paths are
\* the same it fails with "flattening column name collision: '<path>'" for a
\* path that occurs twice, and with no such message otherwise.
C13_NoDuplicatePaths ==
    Flattened =>
        /\ f_out.ok => Distinct(Names(f_out.batch)) /\ Names(f_out.batch) = BatchPaths
        /\ ~f_out.ok => f_out.err = "InvalidArgument"
        /\ ~Distinct(BatchPaths) =>
              /\ ~f_out.ok
              /\ \E i \in 1..Len(BatchPaths) : \E j \in 1..(i - 1) :
                    /\ BatchPaths[i] = BatchPaths[j]
                    /\ f_out.msg = Collision(BatchPaths[i])
        /\ Distinct(BatchPaths) =>
              \A i \in 1..Len(BatchPaths) : f_out.msg # Collision(BatchPaths[i])

C13_Witness ==
    /\ f_pc = "done"
    /\ f_batch = FlatBatches[7]
    /\ f_policy.list = "Drop"
    /\ ~f_out.ok
    /\ f_out.msg = "flattening column name collision: 's.a'"

\* the columns of a batch as names, types and logical cell values
Logical(fields, arrays) ==
    [i \in 1..Len(fields) |->
        [name |-> fields[i].name, dt |-> fields[i].dt, nullable |-> fields[i].nullable,
         cells |-> [r \in 1..arrays[i].len |-> CellAt(arrays[i], r)]]]

\* number of output columns that come from the input columns before column c
Offset(c) ==
    Len(Concat([i \in 1..(c - 1) |->
                   OutputPaths(f_batch.fields[i].dt, f_batch.fields[i].name)]))

\* the output columns that come from input column c
OutSlice(c) ==
    SubSeq(Logical(f_out.batch.fields, f_out.batch.columns), Offset(c) + 1,
           Offset(c) + Len(OutputPaths(f_batch.fields[c].dt, f_batch.fields[c].name)))

\* the policy passes a column of type dt on as one column
ItemKept(dt) ==
    \/ dt.t \in ScalarTypes
    \/ dt.t = "Struct" /\ f_policy.struct_ = "Keep"
    \/ dt.t = "List" /\ f_policy.list = "Keep"
    \/ dt.t = "FixedSizeList" /\ f_policy.array = "Keep"
    \/ dt.t = "Map" /\ f_policy.map = "Keep"

\* n columns {p}{sep}0 .. {p}{sep}(n-1) of type item with the cells given by
\* cell[i][r], each then treated by the pass as a column of its own
ExpandedAs(p, item, n, n_rows, cell) ==
    LET pairs == [c \in 1..n |->
                     [field |-> Field(p \o Sep \o ToString(c - 1), item, TRUE),
                      array |-> build_array_from_values(item,
                                    [r \in 1..n_rows |-> cell[c][r]])]]
        out == collect_expanded(pairs, Sep, f_policy, NoCollector, 1)
    IN  Logical(out.fields, out.arrays)

\* element i (from 0) of the list at row r of col; null if the row is null
\* or has no such element
ListElement(col, r, i) ==
    LET v == CellAt(col, r)
    IN  IF v.k = "List" /\ Len(v.c) > i THEN v.c[i + 1] ELSE VNull

ListColumns == {c \in 1..Len(f_batch.fields) : f_batch.fields[c].dt.t = "List"}

\* C14: with list policy FlattenFixed and size n, a List column at path p is
\* replaced by n columns p{sep}0 .. p{sep}(n-1); column i holds at row r
\* element i of the row's list if the list has more than i elements and null
\* otherwise (short rows padded, elements from n on left out, a null row null
\* in all n columns), and the row count stays.  A column of nested item type
\* is then treated by the pass as any column of that type.
C14_FlattenFixed ==
    (Flattened /\ f_out.ok /\ f_policy.list = "FlattenFixed") =>
        /\ f_out.batch.num_rows = f_batch.num_rows
        /\ \A c \in ListColumns :
              LET p == f_batch.fields[c].name
                  item == f_batch.fields[c].dt.fields[1].dt
                  n == f_policy.list_flatten_fixed_size
                  col == f_batch.columns[c]
                  cell == [i \in 1..n |-> [r \in 1..col.len |-> ListElement(col, r, i - 1)]]
              IN  /\ OutSlice(c) = ExpandedAs(p, item, n, col.len, cell)
                  /\ ItemKept(item) =>
                        /\ Len(OutSlice(c)) = n
                        /\ \A i \in 1..n :
                              /\ OutSlice(c)[i].name = p \o Sep \o ToString(i - 1)
                              /\ OutSlice(c)[i].dt = item
                              /\ OutSlice(c)[i].cells = cell[i]

C14_Witness ==
    /\ f_pc = "done"
    /\ f_out.ok
    /\ f_batch = FlatBatches[2]
    /\ f_policy.list = "FlattenFixed"
    /\ f_policy.list_flatten_fixed_size = 2
    /\ Names(f_out.batch) = <<"x", "lst.0", "lst.1">>
    /\ Logical(f_out.batch.fields, f_out.batch.columns)[3].cells = <<VI32(2), VNull, VNull>>

FixedColumns == {c \in 1..Len(f_batch.fields) : f_batch.fields[c].dt.t = "FixedSizeList"}

\* C15: with array policy Flatten, a FixedSizeList(size) column at path p is
\* replaced by `size` columns p{sep}0 .. p{sep}(size-1); column i holds at
\* row r the child value at offset r*size + i if the parent row is valid and
\* null if the parent row is null.  A column of nested item type is then
\* treated by the pass as any column of that type.
C15_ArrayFlatten ==
    (Flattened /\ f_out.ok /\ f_policy.array = "Flatten") =>
        \A c \in FixedColumns :
            LET p == f_batch.fields[c].name
                item == f_batch.fields[c].dt.fields[1].dt
                size == f_batch.fields[c].dt.size
                col == f_batch.columns[c]
                cell == [i \in 1..size |-> [r \in 1..col.len |->
                            IF col.valid[r] THEN CellAt(col.ch[1], (r - 1) * size + i)
                            ELSE VNull]]
            IN  /\ OutSlice(c) = ExpandedAs(p, item, size, col.len, cell)
                /\ ItemKept(item) =>
                      /\ Len(OutSlice(c)) = size
                      /\ \A i \in 1..size :
                            /\ OutSlice(c)[i].name = p \o Sep \o ToString(i - 1)
                            /\ OutSlice(c)[i].dt = item
                            /\ OutSlice(c)[i].cells = cell[i]

C15_Witness ==
    /\ f_pc = "done"
    /\ f_out.ok
    /\ f_batch = FlatBatches[3]
    /\ f_policy.array = "Flatten"
    /\ Names(f_out.batch) = <<"x", "fsl.0", "fsl.1">>
    /\ Logical(f_out.batch.fields, f_out.batch.columns)[2].cells = <<VI32(1), VNull, VI32(5)>>
    /\ Logical(f_out.batch.fields, f_out.batch.columns)[3].cells = <<VI32(2), VNull, VNull>>

StructColumns == {c \in 1..Len(f_batch.fields) : f_batch.fields[c].dt.t = "Struct"}

\* the columns the pass makes of the children of struct column c, each under
\* the name {parent}{sep}{child}
ChildrenOf(c) ==
    LET f == f_batch.fields[c]
        out == collect_children(f.dt.fields, f_batch.columns[c], f.name, Sep, f_policy,
                                NoCollector, 1)
    IN  Logical(out.fields, out.arrays)

KeepAll == f_policy.list = "Keep" /\ f_policy.array = "Keep" /\ f_policy.map = "Keep"

Unchanged == f_out.ok /\ f_out.batch = f_batch /\ f_out.dropped = {}

\* C17 as stated: with every policy Keep and no Struct column the pass
\* returns the input batch unchanged and an empty dropped list
C17_Original == (Flattened /\ KeepAll /\ StructColumns = {}) => Unchanged

\* C17: when every policy is Keep, the input batch has no Struct column and
\* its column names are pairwise distinct, the pass returns the input batch
\* unchanged (names, order, types, nullability and arrays) with an empty
\* dropped list, and applied to its own result it returns the same again.
C17_KeepIdentity ==
    (KeepAll /\ StructColumns = {} /\ Distinct(Names(f_batch))) =>
        /\ Flattened => Unchanged
        /\ f_pc = "again" => f_again = f_out

C17_Witness ==
    /\ f_pc = "again"
    /\ KeepAll
    /\ f_batch = FlatBatches[8]
    /\ f_again.ok
    /\ f_again.batch = f_batch

\* ------------------------------------------------------------------------
\* Properties of the CDR decoder
\* ------------------------------------------------------------------------
\* C18: before a primitive or a length prefix of alignment size s is read,
\* the decoder standing at absolute offset o, exactly
\* (s - ((o - 4) mod s)) mod s padding bytes are skipped: the read is made
\* at the first offset from o on whose distance from the end of the 4-byte
\* encapsulation header is a multiple of s.
C18_Alignment ==
    \A i \in 1..Len(d_log) :
        LET e == d_log[i]
        IN  /\ e.at - e.o = (e.s - ((e.o - 4) % e.s)) % e.s
            /\ (e.at - 4) % e.s = 0
            /\ e.at - e.o \in 0..(e.s - 1)

\* a U8 followed by an F64: the F64 is read at absolute offset 12
C18_Witness ==
    /\ d_pc = "done"
    /\ d_err = ""
    /\ d_log = <<[s |-> 1, o |-> 4, at |-> 4], [s |-> 8, o |-> 5, at |-> 12]>>

\* ------------------------------------------------------------------------
\* Properties of the type resolver
\* ------------------------------------------------------------------------
\* the key a single-segment reference names in the scope of the struct
\* being resolved
LocalKey(name) == SubSeq(t_def.full_name, 1, Len(t_def.full_name) - 1) \o name

\* what field i resolved to: the type itself, or the element of a sequence
Target(i) ==
    IF t_out[i].k = "Sequence" THEN [k |-> t_out[i].elem, key |-> t_out[i].key]
    ELSE [k |-> t_out[i].k, key |-> t_out[i].key]

SingleSegment(i) == t_def.fields[i].k # "Primitive" /\ Len(t_def.fields[i].name) = 1

\* C19: a single-segment type reference r inside a struct resolves to the
\* key made of the struct's enclosing scope followed by r whenever that key
\* is a struct (then as a struct) or an enum, whatever other keys end in r;
\* and such a reference never fails to resolve.
C19_LocalFirst ==
    /\ \A i \in 1..Len(t_out) :
          SingleSegment(i) =>
              LET local == LocalKey(t_def.fields[i].name)
              IN  /\ local \in t_structs => Target(i) = [k |-> "Struct", key |-> local]
                  /\ (local \notin t_structs /\ local \in t_enums)
                        => Target(i) = [k |-> "Enum", key |-> local]
    /\ (t_err /\ SingleSegment(Len(t_out) + 1))
          => LocalKey(t_def.fields[Len(t_out) + 1].name) \notin t_structs \cup t_enums

C19_Witness ==
    /\ t_pc = "done"
    /\ ~t_err
    /\ t_def.full_name = <<"a", "msg", "Pose">>
    /\ t_def.fields[1] = TScoped(<<"State">>)
    /\ {<<"a", "msg", "State">>, <<"b", "msg", "State">>, <<"a", "srv", "State">>} \subseteq t_structs
    /\ t_out[1] = Resolved("Struct", <<"a", "msg", "State">>, "")

\* ------------------------------------------------------------------------
\* Properties of the protobuf decoder
\* ------------------------------------------------------------------------
RECURSIVE FieldsAgree(_, _, _, _)
\* values are the decoded children and defs the FieldDefs derived for the
\* message msg of the descriptor fields: at every field, and below it, Null
\* and nullable are what the policy says
FieldsAgree(fields, msg, values, defs) ==
    /\ Len(values) = Len(fields)
    /\ Len(defs) = Len(fields)
    /\ \A i \in 1..Len(fields) :
          LET fd == fields[i]
              unset == ~msg[i].set
              value == values[i]
              dt == defs[i].element.data_type
              below == IF unset THEN default_value(fd) ELSE msg[i].value
          IN  /\ IF p_policy = "PresenceAware"
                 THEN /\ value.k = "Null" <=> (supports_presence(fd) /\ unset)
                      /\ defs[i].element.nullable <=> supports_presence(fd)
                 ELSE /\ value.k # "Null"
                      /\ ~defs[i].element.nullable
              /\ (unset /\ value.k \in {"I32", "String"}) => value.v = 0
              /\ (unset /\ value.k \in {"List", "Map"}) => value.c = <<>>
              /\ (value.k = "Struct")
                    => FieldsAgree(fd.fields, below.c, value.c, dt.elems)
              /\ (value.k = "List")
                    => /\ ~dt.elems[1].nullable
                       /\ Len(value.c) = Len(below.c)
                       /\ \A j \in 1..Len(value.c) :
                             /\ value.c[j].k # "Null"
                             /\ value.c[j].k = "Struct"
                                   => FieldsAgree(fd.fields, below.c[j].c, value.c[j].c,
                                                  dt.elems[1].data_type.elems)
              /\ (value.k = "Map")
                    => /\ ~dt.elems[1].nullable /\ ~dt.elems[2].nullable
                       /\ Len(value.c) = Len(below.c)
                       /\ \A j \in 1..Len(value.c) :
                             /\ value.c[j][1].k # "Null"
                             /\ value.c[j][2].k # "Null"
                             /\ value.c[j][2].k = "Struct"
                                   => FieldsAgree(fd.fields, below.c[j][2].c, value.c[j][2].c,
                                                  dt.elems[2].data_type.elems)

OutOfInput == d_pc = "done" /\ d_short.what \in {"padding", "length", "primitive", "bytes"}

\* C21: every decode failure caused by running out of input after the
\* header (in a primitive, a length prefix, string bytes or alignment
\* padding) is reported with the path of the value being decoded.
C21_EofCarriesPath ==
    OutOfInput => d_err = "unexpected EOF at " \o d_short.path

\* C21, without the padding: every failure caused by running out of input
\* in a primitive, a length prefix or string bytes names the path; running
\* out of input in the alignment padding is reported without a path.
C21_EofOfReads ==
    OutOfInput =>
        IF d_short.what = "padding"
        THEN d_err = "buffer underflow while aligning"
        ELSE d_err = "unexpected EOF at " \o d_short.path

C21_Witness ==
    /\ d_pc = "done"
    /\ d_len = 9
    /\ d_short = Short("primitive", "root.f1[1]")
    /\ d_err = "unexpected EOF at root.f1[1]"

\* C22, as stated: a string is read as a 4-aligned length followed by that
\* many bytes and decodes only if those bytes end with NUL, the decoded
\* string being the bytes without the NUL; bytes that do not end with NUL
\* fail with the missing-terminator error.
C22_NulRequired ==
    \A i \in 1..Len(d_strs) :
        LET e == d_strs[i] IN
        /\ (e.at - 4) % 4 = 0
        /\ e.out # NoMax => (e.nul /\ e.out = e.len - 1)
        /\ ~e.nul => (d_pc = "done" /\ i = Len(d_strs)
                      /\ d_err = "string missing null terminator at " \o e.path)

\* C22 with the empty string: a length of 0 decodes as the empty string
\* with no byte read; with a length above 0 and all bytes there, the decode
\* succeeds only if the bytes end with NUL, which is stripped, and bytes
\* that do not end with NUL fail with the missing-terminator error.
C22_NulUnlessEmpty ==
    \A i \in 1..Len(d_strs) :
        LET e == d_strs[i] IN
        /\ (e.at - 4) % 4 = 0
        /\ e.len = 0 => e.out = 0
        /\ e.len > 0 =>
              /\ e.out # NoMax => (e.nul /\ e.utf8 /\ e.out = e.len - 1)
              /\ ~e.nul => (d_pc = "done" /\ i = Len(d_strs)
                            /\ d_err = "string missing null terminator at " \o e.path)

\* a string of two stored bytes decoded as one character, then a U32
C22_Witness ==
    /\ d_pc = "done"
    /\ d_err = ""
    /\ d_len = 16
    /\ d_strs = <<StringRead("root.f1", 4, 2, TRUE, TRUE, 1)>>

\* the segments field i refers to
Segments(i) == t_def.fields[i].name

\* keys of structs and enums whose trailing segments are those of field i
SuffixKeys(i) == {key \in t_structs \cup t_enums : EndsWith(key, Segments(i))}

\* field i is matched neither by local qualification nor by an exact key
Fallback(i) ==
    /\ t_def.fields[i].k # "Primitive"
    /\ ~(SingleSegment(i) /\ LocalKey(Segments(i)) \in t_structs \cup t_enums)
    /\ Segments(i) \notin t_structs \cup t_enums

\* C23: a scoped reference with segments s that neither local qualification
\* nor an exact key matches resolves to the key whose trailing segments are
\* s when exactly one struct or enum key has them, and fails as unresolved
\* when several keys or none have them.
C23_SuffixMatch ==
    /\ \A i \in 1..Len(t_out) :
          Fallback(i) => /\ Cardinality(SuffixKeys(i)) = 1
                         /\ Target(i).key \in SuffixKeys(i)
    /\ (t_err /\ Fallback(Len(t_out) + 1)) => Cardinality(SuffixKeys(Len(t_out) + 1)) # 1

\* ------------------------------------------------------------------------
\* Properties of resolve_parsed_section and of the FieldDefs derivation
\* ------------------------------------------------------------------------
\* the references of the resolved struct at key name keys of the same schema
ClosedAt(key) ==
    \A i \in 1..Len(s_out[key]) :
        LET ty == s_out[key][i]
            kind == IF ty.k = "Sequence" THEN ty.elem ELSE ty.k
        IN  /\ kind # "Err"
            /\ kind = "Struct" => ty.key \in DOMAIN s_out
            /\ kind = "Enum" => ty.key \in s_enums

\* some reference of some parsed struct resolves to nothing
SomeUnresolved ==
    \E key \in DOMAIN s_defs : \E i \in 1..Len(s_defs[key].fields) :
        resolve_type_expr(s_defs[key].fields[i], s_defs[key].full_name,
                          DOMAIN s_defs, s_enums).k = "Err"

\* C24: a ResolvedSchema that is returned has its root among its structs and
\* every Struct or Enum reference of every struct, also inside sequences,
\* names a key of its struct map or enum map; when the root is missing or a
\* reference does not resolve, the resolution fails and returns no schema.
\* So the derivation of the FieldDefs never looks up a struct that is not
\* there.
C24_Closed ==
    /\ s_res = "Ok" => /\ s_root \in DOMAIN s_out
                       /\ DOMAIN s_out = DOMAIN s_defs
                       /\ \A key \in DOMAIN s_out : ClosedAt(key)
    /\ (s_pc \notin {"off", "structs"} /\ (SomeUnresolved \/ s_root \notin DOMAIN s_defs))
          => s_res = "Err"
    /\ s_pc # "panic"

C24_Witness ==
    /\ s_res = "Ok"
    /\ s_root = ExMsg("Outer")
    /\ s_out[ExMsg("Outer")] =
          <<Resolved("Struct", ExMsg("Inner"), ""),
            Resolved("Struct", <<"builtin_interfaces", "msg", "Time">>, ""),
            Resolved("Enum", ExMsg("Color"), "")>>
    /\ ExMsg("Node") \in DOMAIN s_out

\* C30: building the topic decoder of a ResolvedSchema the resolver returned
\* terminates: the derivation of the FieldDefs finishes, also when a struct
\* refers to itself through a sequence.
C30_Terminates == <>(s_pc \in {"failed", "derived"})
\* ------------------------------------------------------------------------
\* Dropped paths of the flatten pass
\* ------------------------------------------------------------------------
RECURSIVE DroppedPaths(_, _)
\* the paths at which the column of type dt at path p loses a List, a
\* FixedSizeList or a Map to a Drop policy under f_policy
DroppedPaths(dt, p) ==
    IF dt.t = "Struct"
    THEN IF f_policy.struct_ = "Keep" THEN {}
         ELSE UNION {DroppedPaths(dt.fields[i].dt, p \o Sep \o dt.fields[i].name) :
                        i \in 1..Len(dt.fields)}
    ELSE IF dt.t = "List"
    THEN IF f_policy.list = "Drop" THEN {p}
         ELSE IF f_policy.list = "Keep" THEN {}
         ELSE UNION {DroppedPaths(dt.fields[1].dt, p \o Sep \o ToString(i - 1)) :
                        i \in 1..f_policy.list_flatten_fixed_size}
    ELSE IF dt.t = "FixedSizeList"
    THEN IF f_policy.array = "Drop" THEN {p}
         ELSE IF f_policy.array = "Keep" THEN {}
         ELSE UNION {DroppedPaths(dt.fields[1].dt, p \o Sep \o ToString(i - 1)) :
                        i \in 1..dt.size}
    ELSE IF dt.t = "Map"
    THEN IF f_policy.map = "Drop" THEN {p} ELSE {}
    ELSE {}

BatchDropped ==
    UNION {DroppedPaths(f_batch.fields[i].dt, f_batch.fields[i].name) :
              i \in 1..Len(f_batch.fields)}

\* the top-level columns of the input that are not lists
NotLists == {i \in 1..Len(f_batch.fields) : f_batch.fields[i].dt.t # "List"}

FixedZero == f_policy.list = "FlattenFixed" /\ f_policy.list_flatten_fixed_size = 0

\* C25: the dropped paths that flatten_record_batch returns are, as a set,
\* exactly the full output paths of the List, FixedSizeList and Map columns
\* that a Drop policy removed, at any depth; a List column under FlattenFixed
\* with size 0 gives no output column and no dropped path.
C25_DroppedPaths ==
    (Flattened /\ f_out.ok) =>
        /\ f_out.dropped = BatchDropped
        /\ FixedZero =>
              \A i \in 1..Len(f_batch.fields) :
                  f_batch.fields[i].dt.t = "List" =>
                      /\ f_batch.fields[i].name \notin f_out.dropped
                      /\ \A k \in 1..Len(f_out.batch.fields) :
                            f_out.batch.fields[k].name # f_batch.fields[i].name
        /\ FixedZero =>
              Len(f_out.batch.fields)
                  = Len(Concat([i \in 1..Len(f_batch.fields) |->
                                   IF i \in NotLists
                                   THEN OutputPaths(f_batch.fields[i].dt, f_batch.fields[i].name)
                                   ELSE <<>>]))

\* a list and a fixed-size list dropped inside a struct, the list at the
\* path of a dropped top-level list
C25_Witness ==
    /\ f_pc = "done"
    /\ f_batch = FlatBatches[18]
    /\ f_sep = NoSeparator
    /\ f_out.ok
    /\ f_out.dropped = {"s.l", "s.f"}
    /\ Names(f_out.batch) = <<"x">>
\* ------------------------------------------------------------------------
\* Null struct rows in the flatten pass
\* ------------------------------------------------------------------------
SeqSet(s) == {s[i] : i \in 1..Len(s)}

RECURSIVE Hidden(_, _, _, _)
\* the cells <<path, row>> of the output that lie under a null struct: the
\* columns that the column col of type dt at path p becomes, at the rows in
\* null_rows and at the rows where a struct on the way down is null
Hidden(dt, col, p, null_rows) ==
    IF dt.t = "Struct" /\ f_policy.struct_ = "Flatten"
    THEN UNION {Hidden(dt.fields[i].dt, col.ch[i], p \o Sep \o dt.fields[i].name,
                       null_rows \cup {r \in 1..col.len : ~col.valid[r]}) :
                   i \in 1..Len(dt.fields)}
    ELSE SeqSet(OutputPaths(dt, p)) \X null_rows

BatchHidden ==
    UNION {Hidden(f_batch.fields[i].dt, f_batch.columns[i], f_batch.fields[i].name, {}) :
              i \in 1..Len(f_batch.fields)}

\* C29: when a Struct column is expanded, every column produced from it is
\* null at every row at which the struct is null.
C29_NullPreserved ==
    (Flattened /\ f_out.ok) =>
        \A cell \in BatchHidden :
            \A k \in 1..Len(f_out.batch.fields) :
                f_out.batch.fields[k].name = cell[1] =>
                    ~f_out.batch.columns[k].valid[cell[2]]
RECURSIVE NullsReachDown(_, _)
\* every child of a struct column is null at the rows where the struct is
\* null, as in the arrays that the row appender builds
NullsReachDown(dt, col) ==
    dt.t = "Struct" =>
        \A i \in 1..Len(dt.fields) :
            /\ \A r \in 1..col.len : ~col.valid[r] => ~col.ch[i].valid[r]
            /\ NullsReachDown(dt.fields[i].dt, col.ch[i])

\* C29 for the batches whose struct columns hold nulls under every null
\* struct row: there the columns produced are null at those rows.
C29_NullOfBuilt ==
    (/\ Flattened
     /\ f_out.ok
     /\ \A i \in 1..Len(f_batch.fields) :
           NullsReachDown(f_batch.fields[i].dt, f_batch.columns[i])) =>
        \A cell \in BatchHidden :
            \A k \in 1..Len(f_out.batch.fields) :
                f_out.batch.fields[k].name = cell[1] =>
                    ~f_out.batch.columns[k].valid[cell[2]]

C29_Witness ==
    /\ f_pc = "done"
    /\ f_batch = FlatBatches[15]
    /\ f_sep = NoSeparator
    /\ f_policy.struct_ = "Flatten"
    /\ f_out.ok
    /\ Names(f_out.batch) = <<"s.t.a", "s.c">>
    /\ f_out.batch.columns[1].valid = <<TRUE, FALSE>>
    /\ <<"s.t.a", 2>> \in BatchHidden
\* ------------------------------------------------------------------------
\* The row buffer of for_each_record_batch
\* ------------------------------------------------------------------------
Max(a, b) == IF a >= b THEN a ELSE b

\* the buffer between two iterations is short of the batch size, so the
\* push of the next iteration fills it to max(batch_size, 1) at most
BufferBounded ==
    /\ Len(rows) <= Max(batch_size, 1)
    /\ pc = "loop" => Len(rows) < Max(batch_size, 1)

EmptyAtCallback == \A i \in 1..Len(delivered) : delivered[i].buffered = 0

OneRowBatches ==
    batch_size = 0 =>
        /\ \A i \in 1..Len(delivered) : delivered[i].batch.num_rows = 1
        /\ pc = "loop" => Len(delivered) = Len(ChannelMsgs(pos))

\* an iteration of the loop consumes one message of the stream, and the
\* messages left are never more than the stream holds
OnePass == [][pc = "loop" /\ pc' = "loop" => pos' = pos + 1 /\ pos' <= Len(file.stream)]_vars

\* inside the loop the call can always go on: to the next message while
\* there is one (Step), to the final flush and the return after the last
\* (Finish)
CanProceed == pc = "loop" => pos < Len(file.stream) \/ pos = Len(file.stream)

\* C28: for every batch size, 0 included, the row buffer never holds more
\* than max(batch_size, 1) rows and is empty whenever the callback is
\* invoked; the call ends after one pass over the stream: every iteration
\* consumes one message, and the loop is never stuck short of its return.
\* With batch size 0 every message is delivered as a batch of one row.
C28_BoundedBuffer ==
    /\ [](BufferBounded /\ EmptyAtCallback /\ OneRowBatches /\ CanProceed)
    /\ OnePass

\* three messages delivered one by one with batch size 0
C28_Witness ==
    /\ pc = "done"
    /\ result = "Ok"
    /\ batch_size = 0
    /\ Len(delivered) = 3
    /\ rows = <<>>
\* ------------------------------------------------------------------------
\* Properties of the IDL line parser
\* ------------------------------------------------------------------------
RECURSIVE ParenDepth(_)
\* the parentheses of annotations left open by the lines
ParenDepth(lines) ==
    IF lines = <<>> THEN 0
    ELSE LET before == SubSeq(lines, 1, Len(lines) - 1)
             l == lines[Len(lines)]
         IN  IF ParenDepth(before) > 0 \/ l.kind = "annotation"
             THEN ParenDepth(before) + l.open - l.close
             ELSE 0

\* line k is read as a statement: it is no annotation and continues none
Statement(lines, k) ==
    ParenDepth(SubSeq(lines, 1, k - 1)) = 0 /\ lines[k].kind # "annotation"

RECURSIVE Scope(_)
\* what is open after the lines: the modules, outermost first, and the
\* name of the struct or enum ("" for none).  A closing brace closes the
\* struct or enum if one is open, the last module otherwise.
Scope(lines) ==
    IF lines = <<>> THEN [mods |-> <<>>, cur |-> ""]
    ELSE LET before == SubSeq(lines, 1, Len(lines) - 1)
             l == lines[Len(lines)]
             s == Scope(before)
         IN  IF ~Statement(lines, Len(lines)) THEN s
             ELSE IF l.kind = "module" THEN [s EXCEPT !.mods = Append(@, l.name)]
             ELSE IF l.kind \in {"struct", "enum"} THEN [s EXCEPT !.cur = l.name]
             ELSE IF l.kind = "close"
             THEN IF s.cur # "" THEN [s EXCEPT !.cur = ""]
                  ELSE [s EXCEPT !.mods = SubSeq(@, 1, Len(@) - 1)]
             ELSE s

Before(k) == SubSeq(i_lines, 1, k - 1)

NothingOpen(s) == s.mods = <<>> /\ s.cur = ""

OpenName ==
    IF i_st.current_struct.some THEN i_st.current_struct.name
    ELSE IF i_st.current_enum.some THEN i_st.current_enum.name
    ELSE ""

FullNames(map) == {d.full_name : d \in map}

LogNames(what) == {i_st.log[j].full_name : j \in {n \in 1..Len(i_st.log) : i_st.log[n].what = what}}

\* C26: every struct and enum is recorded under the names of the modules
\* open at that point, outermost first, followed by its own name; a closing
\* brace closes the open struct or enum if there is one and the most recently
\* opened module otherwise; a closing brace with nothing open and input that
\* ends inside a struct or enum make the parser fail.
C26_FullNames ==
    /\ i_pc # "off" /\ i_st.err = "" =>
          /\ i_st.modules = Scope(i_lines).mods
          /\ OpenName = Scope(i_lines).cur
    /\ \A j \in 1..Len(i_st.log) :
          LET e == i_st.log[j]
              s == Scope(Before(e.line))
          IN  /\ i_lines[e.line].kind = "close"
              /\ s.cur # ""
              /\ e.full_name = Append(s.mods, s.cur)
    /\ FullNames(i_st.structs) = LogNames("struct")
    /\ FullNames(i_st.enums) = LogNames("enum")
    /\ \A k \in 1..Len(i_lines) :
          (Statement(i_lines, k) /\ i_lines[k].kind = "close" /\ NothingOpen(Scope(Before(k)))) =>
              /\ k = Len(i_lines)
              /\ i_res = "unmatched closing brace at line " \o ToString(k)
    /\ (i_pc = "done" /\ i_st.err = "" /\ Scope(i_lines).cur # "") =>
          i_res \in {"unclosed struct declaration", "unclosed enum declaration"}
    /\ i_res = "Ok" => Scope(i_lines).cur = ""

\* a struct with one field inside two modules, closed at the fifth line
C26_Witness ==
    /\ i_res = "Ok"
    /\ Len(i_lines) = 5
    /\ i_st.modules = <<"a", "b">>
    /\ i_st.structs = {StructDef(<<"a", "b", "S">>, <<TPrimitive>>)}
    /\ i_st.log = <<Recorded("struct", <<"a", "b", "S">>, 5)>>
\* ------------------------------------------------------------------------
\* Properties of the decode calls on one TopicDecoder
\* ------------------------------------------------------------------------
\* the result of the first decode call of a decoder built anew
Fresh(data) == decode(k_built, data).result

====
